---- MODULE Spec2Model ----
(***************************************************************************)
(* Authentication and e-mail verification core of the e-commerce backend:  *)
(* the user store, the verification-token store, the outgoing mail, the    *)
(* clock, and the request handlers of app/api/v1/auth.py over them.        *)
(***************************************************************************)
EXTENDS Integers, Sequences, FiniteSets, Bags, TLC

\* ------------------------------------------------------------------ bounds
\* user ids the store hands out
MaxUsers == 2
\* verification-token strings uuid4 hands out
MaxTokens == 2
\* clock advances
MaxTicks == 2
\* ids the categories table hands out
MaxCategories == 2
\* ids the products table hands out
MaxProducts == 1

\* ------------------------------------------------------- program constants
ACCESS_TOKEN_EXPIRE_MINUTES == 30
\* create_for_user(hours=24)
hours == 24
MinutesPerHour == 60
\* UserCreate.password: Field(min_length=8, max_length=100)
min_length == 8
HTTP_200_OK == 200
HTTP_201_CREATED == 201
HTTP_204_NO_CONTENT == 204
HTTP_400_BAD_REQUEST == 400
HTTP_401_UNAUTHORIZED == 401
HTTP_403_FORBIDDEN == 403
HTTP_404_NOT_FOUND == 404
HTTP_422_UNPROCESSABLE_ENTITY == 422
HTTP_500_INTERNAL_SERVER_ERROR == 500

JWT_SECRET_KEY == "jwt-secret"
PlaceholderKey == "re_your_api_key_here"
\* the values settings.RESEND_API_KEY is deployed with
ApiKeys == {"", PlaceholderKey, "re_live_key"}

CUSTOMER == "CUSTOMER"
ADMIN == "ADMIN"
UserRole == {CUSTOMER, ADMIN}

\* ------------------------------------------------------------------ inputs
Emails == {"alice@example.com", "bob@example.com"}
\* a password is its characters, each by class: U upper, l lower, d digit
Str0ngPwd == <<"U", "l", "l", "d", "l", "l", "U", "l", "l">>
An0therPw == <<"U", "l", "d", "l", "l", "l", "l", "l", "U", "l">>
weakpass == <<"l", "l", "l", "l", "l", "l", "l", "l">>
\* what a client registers with, and what it logs in with
RegisterPasswords == {Str0ngPwd, weakpass}
LoginPasswords == {Str0ngPwd, An0therPw}
\* token strings a client may present: every uuid4 the bound allows
TokenStrs == 1..MaxTokens
Procs == {"r1", "r2"}
\* first names: the one clients register with, and the one they change it to
FirstNames == {"Al"}
UpdateNames == {"Bo"}
\* slugs and stock-keeping units of the catalog
CategorySlugs == {"tea", "mugs"}
ProductSlugs == {"oolong", "kettle"}
Skus == {"SKU-1"}

VARIABLES
    RESEND_API_KEY, \* settings.RESEND_API_KEY, fixed at start-up
    users,          \* table users: a set of rows
    tokens,         \* table verification_tokens: a set of rows
    user_seq,       \* last id the users table handed out
    uuid_seq,       \* uuid4 draws so far (each draw is fresh)
    outbox,         \* bag of the e-mail send attempts
    now,            \* datetime.utcnow(), in minutes
    ticks,          \* clock advances so far
    resp,           \* the last response a handler returned, with its request
    pc,             \* the requests in flight, each at its next store operation
    registered,     \* history: ids of the users register created
    verified_by,    \* history: <<user id, token>> of each verify-email call that verified
    bearer,         \* the access token a client has kept from a response, if any
    categories,     \* table categories: a set of rows
    products,       \* table products: a set of rows
    category_seq,   \* last id the categories table handed out
    product_seq     \* last id the products table handed out

\* the tables of the catalog
catalog == <<categories, products, category_seq, product_seq>>

vars == <<RESEND_API_KEY, users, tokens, user_seq, uuid_seq, outbox, now, ticks,
          resp, pc, registered, verified_by, bearer, catalog>>

\* the store and the mail a handler works on
DB == [users |-> users, tokens |-> tokens, user_seq |-> user_seq,
       uuid_seq |-> uuid_seq, outbox |-> outbox]

\* Optional[X] is a set with at most one element
None == {}
Some(x) == {x}
The(S) == CHOOSE x \in S : TRUE

\* ------------------------------------------------------- app/core/security
get_password_hash(password) == <<"$argon2id$", password>>

verify_password(plain_password, hashed_password) ==
    hashed_password = get_password_hash(plain_password)

\* str(n) of a natural number: its decimal digits
RECURSIVE str(_)
str(n) == IF n < 10 THEN <<n>> ELSE Append(str(n \div 10), n % 10)

\* int(s) of a digit string
RECURSIVE int(_)
int(s) == IF Len(s) = 0 THEN 0
          ELSE 10 * int(SubSeq(s, 1, Len(s) - 1)) + s[Len(s)]

create_access_token(subject, expires_delta, t) ==
    [sub |-> Some(str(subject)), exp |-> t + expires_delta, sig |-> JWT_SECRET_KEY]

\* jwt.decode called with verify_exp switched off
jwt_decode_ignores_exp(token, key, t) ==
    IF token.sig # key
    THEN [raised |-> TRUE, payload |-> token]
    ELSE [raised |-> FALSE, payload |-> token]

\* jwt.decode: the payload, or JWTError on a bad signature or a passed exp
jwt_decode(token, key, t) ==
    IF token.sig # key \/ t > token.exp
    THEN [raised |-> TRUE, payload |-> token]
    ELSE [raised |-> FALSE, payload |-> token]

\* ------------------------------------------------------ app/schemas/user.py
validate_password(v) ==
    /\ \E i \in 1..Len(v) : v[i] = "d"
    /\ \E i \in 1..Len(v) : v[i] = "U"

UserCreate(user_in) ==
    /\ Len(user_in.password) >= min_length
    /\ validate_password(user_in.password)

\* ------------------------------------------------------------ app/crud/user
\* Query.first(): one of the rows, if any
first(rows) == IF rows = {} THEN None ELSE Some(CHOOSE r \in rows : TRUE)

get_by_email(db, email) == first({u \in db.users : u.email = email})

get(db, id) == first({u \in db.users : u.id = id})

\* User(...) whose role column defaults to ADMIN
UserDefaultsToAdmin(id, obj_in) ==
    [id |-> id,
     email |-> obj_in.email,
     first_name |-> obj_in.first_name,
     hashed_password |-> get_password_hash(obj_in.password),
     is_active |-> TRUE,
     is_verified |-> FALSE,
     role |-> ADMIN]

\* User(...): the column defaults fill is_active, is_verified and role
User(id, obj_in) ==
    [id |-> id,
     email |-> obj_in.email,
     first_name |-> obj_in.first_name,
     hashed_password |-> get_password_hash(obj_in.password),
     is_active |-> TRUE,
     is_verified |-> FALSE,
     role |-> CUSTOMER]

\* the insert of a users row, whatever the table already holds
insert_user(db, obj_in) ==
    LET db_obj == User(db.user_seq + 1, obj_in)
    IN [raised |-> FALSE,
        db |-> [db EXCEPT !.users = @ \cup {db_obj}, !.user_seq = @ + 1],
        user |-> Some(db_obj)]

\* users.email is unique: the index rejects a second row with the email
email_is_free(db, email) == \A u \in db.users : u.email # email

\* create on a table whose email column lost its unique index
create_without_unique_index(db, obj_in) == insert_user(db, obj_in)

\* db.add; db.commit; db.refresh. The commit raises IntegrityError when the
\* unique index on users.email rejects the row.
create(db, obj_in) ==
    IF email_is_free(db, obj_in.email)
    THEN insert_user(db, obj_in)
    ELSE [raised |-> TRUE, db |-> db, user |-> None]

authenticate(db, email, password) ==
    LET user == get_by_email(db, email)
    IN IF user = None THEN None
       ELSE IF ~verify_password(password, The(user).hashed_password) THEN None
       ELSE user

\* CRUDBase.update: the fields obj_in sets are written to the row, then commit
update(db, db_obj, obj_in) ==
    LET updated == IF obj_in.first_name = None THEN db_obj
                   ELSE [db_obj EXCEPT !.first_name = The(obj_in.first_name)]
    IN [db |-> [db EXCEPT !.users = (@ \ {db_obj}) \cup {updated}], user |-> updated]

\* user.is_verified = True; db.commit()
set_verified(db, id) ==
    [db EXCEPT !.users = {IF u.id = id THEN [u EXCEPT !.is_verified = TRUE] ELSE u
                          : u \in @}]

\* ------------------------------------------------- app/core/dependencies.py
credentials_exception ==
    [status |-> HTTP_401_UNAUTHORIZED, detail |-> "Could not validate credentials",
     headers |-> {<<"WWW-Authenticate", "Bearer">>}, user |-> None]

\* get_current_user that tells an expired token from the other rejections
get_current_user_names_expiry(db, token, t) ==
    LET d == jwt_decode(token, JWT_SECRET_KEY, t)
        user_id == d.payload.sub
        user == get(db, int(The(user_id)))
    IN IF d.raised /\ token.sig = JWT_SECRET_KEY
       THEN [credentials_exception EXCEPT !.detail = "Token has expired"]
       ELSE IF d.raised THEN credentials_exception
       ELSE IF user_id = None THEN credentials_exception
       ELSE IF user = None THEN credentials_exception
       ELSE [status |-> HTTP_200_OK, detail |-> "", headers |-> {}, user |-> user]

get_current_user(db, token, t) ==
    LET d == jwt_decode(token, JWT_SECRET_KEY, t)
        user_id == d.payload.sub
        user == get(db, int(The(user_id)))
    IN IF d.raised THEN credentials_exception
       ELSE IF user_id = None THEN credentials_exception
       ELSE IF user = None THEN credentials_exception
       ELSE [status |-> HTTP_200_OK, detail |-> "", headers |-> {}, user |-> user]

get_current_active_user(db, token, t) ==
    LET current_user == get_current_user(db, token, t)
    IN IF current_user.status # HTTP_200_OK THEN current_user
       ELSE IF ~The(current_user.user).is_active
       THEN [status |-> HTTP_400_BAD_REQUEST, detail |-> "Inactive user",
             headers |-> {}, user |-> None]
       ELSE current_user

\* get_current_admin that depends on get_current_user, not on
\* get_current_active_user
get_current_admin_skips_active(db, token, t) ==
    LET current_user == get_current_user(db, token, t)
    IN IF current_user.status # HTTP_200_OK THEN current_user
       ELSE IF The(current_user.user).role # ADMIN
       THEN [status |-> HTTP_403_FORBIDDEN, detail |-> "Not enough permissions",
             headers |-> {}, user |-> None]
       ELSE current_user

get_current_admin(db, token, t) ==
    LET current_user == get_current_active_user(db, token, t)
    IN IF current_user.status # HTTP_200_OK THEN current_user
       ELSE IF The(current_user.user).role # ADMIN
       THEN [status |-> HTTP_403_FORBIDDEN, detail |-> "Not enough permissions",
             headers |-> {}, user |-> None]
       ELSE current_user

\* ------------------------------------------------ app/crud/verification_token
generate_token(db) == db.uuid_seq + 1

get_expiration_time(h, t) == t + h * MinutesPerHour

\* is_expired that already counts the expiry instant as passed
is_expired_at_expiry(token_obj, t) == t >= token_obj.expires_at

\* is_expired with the comparison turned round
is_expired_reversed(token_obj, t) == t < token_obj.expires_at

is_expired(token_obj, t) == t > token_obj.expires_at

get_by_token(db, token) == first({k \in db.tokens : k.token = token})

\* commit_ok: whether the store accepts the commit
create_for_user(db, user_id, t, commit_ok) ==
    LET token_str == generate_token(db)
        db_obj == [token |-> token_str, user_id |-> user_id,
                   expires_at |-> get_expiration_time(hours, t)]
        drawn == [db EXCEPT !.uuid_seq = @ + 1]
    IN IF commit_ok
       THEN [raised |-> FALSE, db |-> [drawn EXCEPT !.tokens = @ \cup {db_obj}],
             token |-> Some(db_obj)]
       ELSE [raised |-> TRUE, db |-> drawn, token |-> None]

\* delete_by_token that deletes every token of the row's owner
delete_by_token_of_owner(db, token) ==
    LET db_obj == get_by_token(db, token)
    IN IF db_obj # None
       THEN [db |-> [db EXCEPT !.tokens = {k \in @ : k.user_id # The(db_obj).user_id}],
             result |-> TRUE]
       ELSE [db |-> db, result |-> FALSE]

\* delete_by_token that never finds the row
delete_by_token_not_found(db, token) == [db |-> db, result |-> FALSE]

delete_by_token(db, token) ==
    LET db_obj == get_by_token(db, token)
    IN IF db_obj # None
       THEN [db |-> [db EXCEPT !.tokens = @ \ db_obj], result |-> TRUE]
       ELSE [db |-> db, result |-> FALSE]

\* delete_by_user_id whose filter matches no row
delete_by_user_id_matches_none(db, user_id) == [db |-> db, result |-> 0]

delete_by_user_id(db, user_id) ==
    LET rows == {k \in db.tokens : k.user_id = user_id}
    IN [db |-> [db EXCEPT !.tokens = @ \ rows], result |-> Cardinality(rows)]

\* cleanup_expired whose filter is expires_at <= utcnow()
cleanup_expired_at_expiry(db, t) ==
    LET rows == {k \in db.tokens : k.expires_at <= t}
    IN [db |-> [db EXCEPT !.tokens = @ \ rows], result |-> Cardinality(rows)]

cleanup_expired(db, t) ==
    LET rows == {k \in db.tokens : k.expires_at < t}
    IN [db |-> [db EXCEPT !.tokens = @ \ rows], result |-> Cardinality(rows)]

is_valid(db, token, t) ==
    LET db_obj == get_by_token(db, token)
    IN IF db_obj = None THEN <<FALSE, "Invalid verification token">>
       ELSE IF is_expired(The(db_obj), t)
            THEN <<FALSE, "Verification token has expired">>
       ELSE <<TRUE, "">>

\* ----------------------------------------------------------- app/core/email
\* one send attempt; delivered says whether Resend accepted it, and the call
\* raises when it did not
send_email(db, kind, email_to, token, delivered) ==
    [raised |-> ~delivered,
     db |-> [db EXCEPT !.outbox = @ (+) SetToBag({[kind |-> kind, to |-> email_to,
                                                  token |-> token,
                                                  delivered |-> delivered]})]]

send_verification_email(db, email_to, token, delivered) ==
    send_email(db, "verification", email_to, Some(token), delivered)

send_welcome_email(db, email_to, delivered) ==
    send_email(db, "welcome", email_to, None, delivered)

\* -------------------------------------------------------- app/api/v1/auth.py
EmailConfigured(key) == key # "" /\ key # PlaceholderKey

RegisterResp(user_in, status, detail, user) ==
    [op |-> "register", email |-> user_in.email, password |-> user_in.password,
     status |-> status, detail |-> detail, user |-> user]

\* register whose else branch (lines 56-61) does not set is_verified
register_finish_never_verifies(db, key, user_in, user, t, commit_ok, delivered) ==
    IF EmailConfigured(key)
    THEN LET c == create_for_user(db, user.id, t, commit_ok)
             after == IF c.raised THEN c.db
                      ELSE send_verification_email(c.db, user.email,
                                                   The(c.token).token, delivered).db
         IN [db |-> after,
             resp |-> RegisterResp(user_in, HTTP_201_CREATED, "", get(after, user.id))]
    ELSE [db |-> db,
          resp |-> RegisterResp(user_in, HTTP_201_CREATED, "", get(db, user.id))]

\* register without the try/except round the token and the send (lines 46-55)
register_finish_unguarded(db, key, user_in, user, t, commit_ok, delivered) ==
    IF EmailConfigured(key)
    THEN LET c == create_for_user(db, user.id, t, commit_ok)
             s == send_verification_email(c.db, user.email, The(c.token).token,
                                          delivered)
         IN IF c.raised
            THEN [db |-> c.db,
                  resp |-> RegisterResp(user_in, HTTP_500_INTERNAL_SERVER_ERROR,
                                        "Internal Server Error", None)]
            ELSE IF s.raised
            THEN [db |-> s.db,
                  resp |-> RegisterResp(user_in, HTTP_500_INTERNAL_SERVER_ERROR,
                                        "Internal Server Error", None)]
            ELSE [db |-> s.db,
                  resp |-> RegisterResp(user_in, HTTP_201_CREATED, "",
                                        get(s.db, user.id))]
    ELSE LET after == set_verified(db, user.id)
         IN [db |-> after,
             resp |-> RegisterResp(user_in, HTTP_201_CREATED, "", get(after, user.id))]

\* register, lines 44-63: after the user row is created
register_finish(db, key, user_in, user, t, commit_ok, delivered) ==
    IF EmailConfigured(key)
    THEN LET c == create_for_user(db, user.id, t, commit_ok)
             \* the except clause swallows what create_for_user or the send raises
             after == IF c.raised THEN c.db
                      ELSE send_verification_email(c.db, user.email,
                                                   The(c.token).token, delivered).db
         IN [db |-> after,
             resp |-> RegisterResp(user_in, HTTP_201_CREATED, "", get(after, user.id))]
    ELSE LET after == set_verified(db, user.id)
         IN [db |-> after,
             resp |-> RegisterResp(user_in, HTTP_201_CREATED, "", get(after, user.id))]

\* register without the DuplicateEmail check
register_check_skipped(db, user_in) == None

\* register, lines 33-39: the DuplicateEmail check
register_check(db, user_in) ==
    IF get_by_email(db, user_in.email) # None
    THEN Some(RegisterResp(user_in, HTTP_400_BAD_REQUEST,
                           "User with this email already exists", None))
    ELSE None

\* register, line 42: an IntegrityError of the commit is not caught
register_create(db, user_in) ==
    LET c == create(db, user_in)
    IN IF c.raised
       THEN [db |-> db, user |-> None,
             resp |-> Some(RegisterResp(user_in, HTTP_500_INTERNAL_SERVER_ERROR,
                                        "Internal Server Error", None))]
       ELSE [db |-> c.db, user |-> c.user, resp |-> None]

register(db, key, user_in, t, commit_ok, delivered) ==
    LET rejected == register_check(db, user_in)
        c == register_create(db, user_in)
    IN IF rejected # None THEN [db |-> db, resp |-> The(rejected)]
       ELSE IF c.resp # None THEN [db |-> c.db, resp |-> The(c.resp)]
       ELSE register_finish(c.db, key, user_in, The(c.user), t, commit_ok, delivered)

LoginResp(email, password, status, detail, access_token) ==
    [op |-> "login", email |-> email, password |-> password,
     status |-> status, detail |-> detail, access_token |-> access_token]

\* login that tests is_verified before is_active
login_verified_first(db, email, password, t) ==
    LET user == authenticate(db, email, password)
    IN IF user = None
       THEN LoginResp(email, password, HTTP_401_UNAUTHORIZED,
                      "Incorrect email or password", None)
       ELSE IF ~The(user).is_verified
       THEN LoginResp(email, password, HTTP_403_FORBIDDEN, "Email not verified", None)
       ELSE IF ~The(user).is_active
       THEN LoginResp(email, password, HTTP_400_BAD_REQUEST, "Inactive user", None)
       ELSE LoginResp(email, password, HTTP_200_OK, "",
                      Some(create_access_token(The(user).id,
                                               ACCESS_TOKEN_EXPIRE_MINUTES, t)))

\* login without the is_verified test (lines 99-103)
login_skips_verified(db, email, password, t) ==
    LET user == authenticate(db, email, password)
    IN IF user = None
       THEN LoginResp(email, password, HTTP_401_UNAUTHORIZED,
                      "Incorrect email or password", None)
       ELSE IF ~The(user).is_active
       THEN LoginResp(email, password, HTTP_400_BAD_REQUEST, "Inactive user", None)
       ELSE LoginResp(email, password, HTTP_200_OK, "",
                      Some(create_access_token(The(user).id,
                                               ACCESS_TOKEN_EXPIRE_MINUTES, t)))

login(db, email, password, t) ==
    LET user == authenticate(db, email, password)
    IN IF user = None
       THEN LoginResp(email, password, HTTP_401_UNAUTHORIZED,
                      "Incorrect email or password", None)
       ELSE IF ~The(user).is_active
       THEN LoginResp(email, password, HTTP_400_BAD_REQUEST, "Inactive user", None)
       ELSE IF ~The(user).is_verified
       THEN LoginResp(email, password, HTTP_403_FORBIDDEN, "Email not verified", None)
       ELSE LoginResp(email, password, HTTP_200_OK, "",
                      Some(create_access_token(The(user).id,
                                               ACCESS_TOKEN_EXPIRE_MINUTES, t)))

\* the response of a handler behind the authorization gate
GateResp(op, token, status, detail, user, access_token) ==
    [op |-> op, bearer |-> token, status |-> status, detail |-> detail,
     user |-> user, access_token |-> access_token]

\* GET /me
get_current_user_info(db, token, t) ==
    LET current_user == get_current_active_user(db, token, t)
    IN [db |-> db,
        resp |-> GateResp("me", token, current_user.status, current_user.detail,
                          current_user.user, None)]

\* PUT /me that writes a row rebuilt from the column defaults
update_current_user_resets_defaults(db, token, user_in, t) ==
    LET current_user == get_current_active_user(db, token, t)
        u == update(db, The(current_user.user), user_in)
        rebuilt == [u.user EXCEPT !.is_verified = FALSE]
    IN IF current_user.status # HTTP_200_OK
       THEN [db |-> db,
             resp |-> GateResp("update_me", token, current_user.status,
                               current_user.detail, None, None)]
       ELSE [db |-> [u.db EXCEPT !.users = (@ \ {u.user}) \cup {rebuilt}],
             resp |-> GateResp("update_me", token, HTTP_200_OK, "", Some(rebuilt), None)]

\* PUT /me
update_current_user(db, token, user_in, t) ==
    LET current_user == get_current_active_user(db, token, t)
        u == update(db, The(current_user.user), user_in)
    IN IF current_user.status # HTTP_200_OK
       THEN [db |-> db,
             resp |-> GateResp("update_me", token, current_user.status,
                               current_user.detail, None, None)]
       ELSE [db |-> u.db,
             resp |-> GateResp("update_me", token, HTTP_200_OK, "", Some(u.user), None)]

\* refresh that also sweeps the expired verification tokens
refresh_token_sweeps_expired(db, token, t) ==
    LET current_user == get_current_user(db, token, t)
        swept == cleanup_expired(db, t).db
    IN IF current_user.status # HTTP_200_OK
       THEN [db |-> swept,
             resp |-> GateResp("refresh", token, current_user.status,
                               current_user.detail, None, None)]
       ELSE [db |-> swept,
             resp |-> GateResp("refresh", token, HTTP_200_OK, "", None,
                               Some(create_access_token(The(current_user.user).id,
                                                        ACCESS_TOKEN_EXPIRE_MINUTES, t)))]

\* refresh behind get_current_active_user, as GET /me is
refresh_token_requires_active(db, token, t) ==
    LET current_user == get_current_active_user(db, token, t)
    IN IF current_user.status # HTTP_200_OK
       THEN [db |-> db,
             resp |-> GateResp("refresh", token, current_user.status,
                               current_user.detail, None, None)]
       ELSE [db |-> db,
             resp |-> GateResp("refresh", token, HTTP_200_OK, "", None,
                               Some(create_access_token(The(current_user.user).id,
                                                        ACCESS_TOKEN_EXPIRE_MINUTES, t)))]

\* POST /refresh
refresh_token(db, token, t) ==
    LET current_user == get_current_user(db, token, t)
    IN IF current_user.status # HTTP_200_OK
       THEN [db |-> db,
             resp |-> GateResp("refresh", token, current_user.status,
                               current_user.detail, None, None)]
       ELSE [db |-> db,
             resp |-> GateResp("refresh", token, HTTP_200_OK, "", None,
                               Some(create_access_token(The(current_user.user).id,
                                                        ACCESS_TOKEN_EXPIRE_MINUTES, t)))]

\* a handler behind get_current_admin, up to the point where its body starts
admin_only(db, token, t) ==
    LET current_admin == get_current_admin(db, token, t)
    IN [db |-> db,
        resp |-> GateResp("admin", token, current_admin.status, current_admin.detail,
                          current_admin.user, None)]

VerifyResp(token, status, detail) ==
    [op |-> "verify_email", token |-> token, status |-> status, detail |-> detail]

\* verify_email that leaves the consumed token in the table (no line 211)
verify_email_keeps_token(db, token, t, delivered) ==
    LET v == is_valid(db, token, t)
        token_obj == get_by_token(db, token)
        user == get(db, The(token_obj).user_id)
    IN IF ~v[1] THEN [db |-> db, resp |-> VerifyResp(token, HTTP_400_BAD_REQUEST, v[2])]
       ELSE IF token_obj = None
       THEN [db |-> db, resp |-> VerifyResp(token, HTTP_400_BAD_REQUEST,
                                            "Invalid verification token")]
       ELSE IF user = None
       THEN [db |-> db, resp |-> VerifyResp(token, HTTP_404_NOT_FOUND, "User not found")]
       ELSE IF The(user).is_verified
       THEN [db |-> db, resp |-> VerifyResp(token, HTTP_200_OK, "Email already verified")]
       ELSE LET marked == set_verified(db, The(user).id)
                consumed == marked
                sent == send_welcome_email(consumed, The(user).email, delivered).db
            IN [db |-> sent,
                resp |-> VerifyResp(token, HTTP_200_OK, "Email verified successfully")]

\* verify_email that removes every token of the user, not the presented one alone
verify_email_deletes_all(db, token, t, delivered) ==
    LET v == is_valid(db, token, t)
        token_obj == get_by_token(db, token)
        user == get(db, The(token_obj).user_id)
    IN IF ~v[1] THEN [db |-> db, resp |-> VerifyResp(token, HTTP_400_BAD_REQUEST, v[2])]
       ELSE IF token_obj = None
       THEN [db |-> db, resp |-> VerifyResp(token, HTTP_400_BAD_REQUEST,
                                            "Invalid verification token")]
       ELSE IF user = None
       THEN [db |-> db, resp |-> VerifyResp(token, HTTP_404_NOT_FOUND, "User not found")]
       ELSE IF The(user).is_verified
       THEN [db |-> db, resp |-> VerifyResp(token, HTTP_200_OK, "Email already verified")]
       ELSE LET marked == set_verified(db, The(user).id)
                consumed == delete_by_user_id(marked, The(user).id).db
                sent == send_welcome_email(consumed, The(user).email, delivered).db
            IN [db |-> sent,
                resp |-> VerifyResp(token, HTTP_200_OK, "Email verified successfully")]

\* verify_email that answers a verified user 400, as resend-verification does
verify_email_rejects_verified(db, token, t, delivered) ==
    LET v == is_valid(db, token, t)
        token_obj == get_by_token(db, token)
        user == get(db, The(token_obj).user_id)
    IN IF ~v[1] THEN [db |-> db, resp |-> VerifyResp(token, HTTP_400_BAD_REQUEST, v[2])]
       ELSE IF token_obj = None
       THEN [db |-> db, resp |-> VerifyResp(token, HTTP_400_BAD_REQUEST,
                                            "Invalid verification token")]
       ELSE IF user = None
       THEN [db |-> db, resp |-> VerifyResp(token, HTTP_404_NOT_FOUND, "User not found")]
       ELSE IF The(user).is_verified
       THEN [db |-> db,
             resp |-> VerifyResp(token, HTTP_400_BAD_REQUEST, "Email already verified")]
       ELSE LET marked == set_verified(db, The(user).id)
                consumed == delete_by_token(marked, token).db
                sent == send_welcome_email(consumed, The(user).email, delivered).db
            IN [db |-> sent,
                resp |-> VerifyResp(token, HTTP_200_OK, "Email verified successfully")]

\* verify_email that also deletes the token of an already verified user
verify_email_consumes_always(db, token, t, delivered) ==
    LET v == is_valid(db, token, t)
        token_obj == get_by_token(db, token)
        user == get(db, The(token_obj).user_id)
    IN IF ~v[1] THEN [db |-> db, resp |-> VerifyResp(token, HTTP_400_BAD_REQUEST, v[2])]
       ELSE IF token_obj = None
       THEN [db |-> db, resp |-> VerifyResp(token, HTTP_400_BAD_REQUEST,
                                            "Invalid verification token")]
       ELSE IF user = None
       THEN [db |-> db, resp |-> VerifyResp(token, HTTP_404_NOT_FOUND, "User not found")]
       ELSE IF The(user).is_verified
       THEN [db |-> delete_by_token(db, token).db,
             resp |-> VerifyResp(token, HTTP_200_OK, "Email already verified")]
       ELSE LET marked == set_verified(db, The(user).id)
                consumed == delete_by_token(marked, token).db
                sent == send_welcome_email(consumed, The(user).email, delivered).db
            IN [db |-> sent,
                resp |-> VerifyResp(token, HTTP_200_OK, "Email verified successfully")]

verify_email(db, token, t, delivered) ==
    LET v == is_valid(db, token, t)
        token_obj == get_by_token(db, token)
        user == get(db, The(token_obj).user_id)
    IN IF ~v[1] THEN [db |-> db, resp |-> VerifyResp(token, HTTP_400_BAD_REQUEST, v[2])]
       ELSE IF token_obj = None
       THEN [db |-> db, resp |-> VerifyResp(token, HTTP_400_BAD_REQUEST,
                                            "Invalid verification token")]
       ELSE IF user = None
       THEN [db |-> db, resp |-> VerifyResp(token, HTTP_404_NOT_FOUND, "User not found")]
       ELSE IF The(user).is_verified
       THEN [db |-> db, resp |-> VerifyResp(token, HTTP_200_OK, "Email already verified")]
       ELSE LET marked == set_verified(db, The(user).id)
                consumed == delete_by_token(marked, token).db
                \* the except clause swallows what the send raises
                sent == send_welcome_email(consumed, The(user).email, delivered).db
            IN [db |-> sent,
                resp |-> VerifyResp(token, HTTP_200_OK, "Email verified successfully")]

\* POST /verify-email up to its read of is_verified (lines 179-205): the
\* response, if the handler returns there
verify_check(db, token, t) ==
    LET v == is_valid(db, token, t)
        token_obj == get_by_token(db, token)
        user == get(db, The(token_obj).user_id)
    IN IF ~v[1] THEN Some(VerifyResp(token, HTTP_400_BAD_REQUEST, v[2]))
       ELSE IF token_obj = None
       THEN Some(VerifyResp(token, HTTP_400_BAD_REQUEST, "Invalid verification token"))
       ELSE IF user = None
       THEN Some(VerifyResp(token, HTTP_404_NOT_FOUND, "User not found"))
       ELSE IF The(user).is_verified
       THEN Some(VerifyResp(token, HTTP_200_OK, "Email already verified"))
       ELSE None

\* the send of the welcome e-mail and the response (lines 213-222): the except
\* clause swallows what the send raises
verify_send(db, token, user, delivered) ==
    [db |-> send_welcome_email(db, user.email, delivered).db,
     resp |-> VerifyResp(token, HTTP_200_OK, "Email verified successfully")]

ResendResp(email, status, detail) ==
    [op |-> "resend_verification", email |-> email, status |-> status, detail |-> detail]

\* resend_verification_email without the already-verified test (lines 244-249)
resend_check_ignores_verified(db, email) ==
    LET user == get_by_email(db, email)
    IN IF user = None
       THEN Some(ResendResp(email, HTTP_200_OK,
                            "If the email exists, a verification link has been sent"))
       ELSE None

\* resend_verification_email, lines 237-249: the reads before the first write
resend_check(db, email) ==
    LET user == get_by_email(db, email)
    IN IF user = None
       THEN Some(ResendResp(email, HTTP_200_OK,
                            "If the email exists, a verification link has been sent"))
       ELSE IF The(user).is_verified
       THEN Some(ResendResp(email, HTTP_400_BAD_REQUEST, "Email already verified"))
       ELSE None

\* resend_verification_email whose except clause only logs, as the one of
\* register does
resend_send_swallows_failure(db, email, token, delivered) ==
    LET s == send_verification_email(db, email, token, delivered)
    IN [db |-> s.db, resp |-> ResendResp(email, HTTP_200_OK, "Verification email sent")]

\* resend_verification_email, lines 257-271
resend_send(db, email, token, delivered) ==
    LET s == send_verification_email(db, email, token, delivered)
    IN [db |-> s.db,
        resp |-> IF s.raised
                 THEN ResendResp(email, HTTP_500_INTERNAL_SERVER_ERROR,
                                 "Failed to send verification email")
                 ELSE ResendResp(email, HTTP_200_OK, "Verification email sent")]

resend_verification_email(db, email, t, delivered) ==
    LET rejected == resend_check(db, email)
        user == The(get_by_email(db, email))
        deleted == delete_by_user_id(db, user.id).db
        c == create_for_user(deleted, user.id, t, TRUE)
    IN IF rejected # None THEN [db |-> db, resp |-> The(rejected)]
       ELSE resend_send(c.db, user.email, The(c.token).token, delivered)

\* ------------------------------------------------------ the catalog tables
\* Category(...) and Product(...): the columns the handlers read
Category(id, obj_in) ==
    [id |-> id, slug |-> obj_in.slug, is_active |-> obj_in.is_active]

Product(id, obj_in) ==
    [id |-> id, slug |-> obj_in.slug, sku |-> obj_in.sku,
     category_id |-> obj_in.category_id, is_active |-> obj_in.is_active]

\* CRUDBase.get on the categories and on the products table
get_category_row(cat, id) == first({c \in cat.categories : c.id = id})

get_product_row(cat, id) == first({p \in cat.products : p.id = id})

\* CRUDCategory.get_by_slug, CRUDProduct.get_by_slug and get_by_sku
get_category_by_slug(cat, slug) == first({c \in cat.categories : c.slug = slug})

get_product_by_slug(cat, slug) == first({p \in cat.products : p.slug = slug})

get_by_sku(cat, sku) == first({p \in cat.products : p.sku = Some(sku)})

get_active(cat) == {c \in cat.categories : c.is_active}

\* CRUDBase.get_multi
get_multi(cat) == cat.categories

\* the products whose category_id names the category, active or not
referencing(cat, category_id) ==
    {p \in cat.products : p.category_id = Some(category_id)}

get_multi_with_filters(cat, category_id, is_active) ==
    {p \in cat.products :
        /\ is_active # None => p.is_active = The(is_active)
        /\ category_id # None => p.category_id = category_id}

\* products.category_id is a foreign key to categories.id
category_id_is_known(cat, category_id) ==
    \A id \in category_id : get_category_row(cat, id) # None

\* ------------------------------------------- the dependency of admin routes
\* OAuth2PasswordBearer answers a request that carries no Authorization header
not_authenticated ==
    [status |-> HTTP_401_UNAUTHORIZED, detail |-> "Not authenticated",
     headers |-> {<<"WWW-Authenticate", "Bearer">>}, user |-> None]

\* Depends(get_current_admin) on a request whose Authorization header is optional
depends_get_current_admin(db, authorization, t) ==
    IF authorization = None THEN not_authenticated
    ELSE get_current_admin(db, The(authorization), t)

CatalogResp(op, authorization, status, detail, result) ==
    [op |-> op, authorization |-> authorization, status |-> status,
     detail |-> detail, result |-> result]

\* ------------------------------------------------ app/api/v1/categories.py
\* GET /categories/: the categories with their counts of active products
list_categories(cat, is_active) ==
    LET rows == IF is_active THEN get_active(cat) ELSE get_multi(cat)
    IN [cat |-> cat,
        resp |-> CatalogResp("list_categories", None, HTTP_200_OK, "",
                             {[id |-> c.id,
                               product_count |->
                                   Cardinality({p \in referencing(cat, c.id) :
                                                   p.is_active})] : c \in rows})]

\* GET /categories/{category_id}
get_category(cat, category_id) ==
    LET category == get_category_row(cat, category_id)
    IN IF category = None
       THEN [cat |-> cat,
             resp |-> CatalogResp("get_category", None, HTTP_404_NOT_FOUND,
                                  "Category not found", None)]
       ELSE [cat |-> cat,
             resp |-> CatalogResp("get_category", None, HTTP_200_OK, "", category)]

\* create_category without Depends(get_current_admin)
create_category_open(db, cat, authorization, category_in, t) ==
    LET existing == get_category_by_slug(cat, category_in.slug)
        category == Category(cat.category_seq + 1, category_in)
    IN IF existing # None
       THEN [cat |-> cat,
             resp |-> CatalogResp("create_category", authorization,
                                  HTTP_400_BAD_REQUEST,
                                  "Category with this slug already exists", None)]
       ELSE [cat |-> [cat EXCEPT !.categories = @ \cup {category},
                                 !.category_seq = @ + 1],
             resp |-> CatalogResp("create_category", authorization,
                                  HTTP_201_CREATED, "", Some(category))]

\* POST /categories/
create_category(db, cat, authorization, category_in, t) ==
    LET current_admin == depends_get_current_admin(db, authorization, t)
        existing == get_category_by_slug(cat, category_in.slug)
        category == Category(cat.category_seq + 1, category_in)
    IN IF current_admin.status # HTTP_200_OK
       THEN [cat |-> cat,
             resp |-> CatalogResp("create_category", authorization,
                                  current_admin.status, current_admin.detail, None)]
       ELSE IF existing # None
       THEN [cat |-> cat,
             resp |-> CatalogResp("create_category", authorization,
                                  HTTP_400_BAD_REQUEST,
                                  "Category with this slug already exists", None)]
       ELSE [cat |-> [cat EXCEPT !.categories = @ \cup {category},
                                 !.category_seq = @ + 1],
             resp |-> CatalogResp("create_category", authorization,
                                  HTTP_201_CREATED, "", Some(category))]

\* PUT /categories/{category_id}
update_category(db, cat, authorization, category_id, category_in, t) ==
    LET current_admin == depends_get_current_admin(db, authorization, t)
        category == get_category_row(cat, category_id)
        existing == get_category_by_slug(cat, The(category_in.slug))
        updated == [The(category) EXCEPT
                       !.slug = IF category_in.slug = None THEN @
                                ELSE The(category_in.slug),
                       !.is_active = IF category_in.is_active = None THEN @
                                     ELSE The(category_in.is_active)]
    IN IF current_admin.status # HTTP_200_OK
       THEN [cat |-> cat,
             resp |-> CatalogResp("update_category", authorization,
                                  current_admin.status, current_admin.detail, None)]
       ELSE IF category = None
       THEN [cat |-> cat,
             resp |-> CatalogResp("update_category", authorization,
                                  HTTP_404_NOT_FOUND, "Category not found", None)]
       ELSE IF /\ category_in.slug # None
               /\ The(category_in.slug) # The(category).slug
               /\ existing # None
       THEN [cat |-> cat,
             resp |-> CatalogResp("update_category", authorization,
                                  HTTP_400_BAD_REQUEST,
                                  "Category with this slug already exists", None)]
       ELSE [cat |-> [cat EXCEPT !.categories = (@ \ category) \cup {updated}],
             resp |-> CatalogResp("update_category", authorization, HTTP_200_OK,
                                  "", Some(updated))]

\* the detail of the refusal: "Cannot delete category with {n} products. ..."
CannotDelete(product_count) ==
    "Cannot delete category with " \o ToString(product_count)
        \o " products. Remove products first."

\* delete_category whose count looks at the active products only, as the
\* counts of the list and get endpoints do
delete_category_check_counts_active(db, cat, authorization, category_id, t) ==
    LET current_admin == depends_get_current_admin(db, authorization, t)
        category == get_category_row(cat, category_id)
        product_count == Cardinality({p \in referencing(cat, category_id) :
                                         p.is_active})
    IN IF current_admin.status # HTTP_200_OK
       THEN Some(CatalogResp("delete_category", authorization,
                             current_admin.status, current_admin.detail, None))
       ELSE IF category = None
       THEN Some(CatalogResp("delete_category", authorization, HTTP_404_NOT_FOUND,
                             "Category not found", None))
       ELSE IF product_count > 0
       THEN Some(CatalogResp("delete_category", authorization,
                             HTTP_400_BAD_REQUEST, CannotDelete(product_count),
                             None))
       ELSE None

\* DELETE /categories/{category_id} up to its last read, the count of the
\* products (lines 174-188): the refusal, if any
delete_category_check(db, cat, authorization, category_id, t) ==
    LET current_admin == depends_get_current_admin(db, authorization, t)
        category == get_category_row(cat, category_id)
        product_count == Cardinality(referencing(cat, category_id))
    IN IF current_admin.status # HTTP_200_OK
       THEN Some(CatalogResp("delete_category", authorization,
                             current_admin.status, current_admin.detail, None))
       ELSE IF category = None
       THEN Some(CatalogResp("delete_category", authorization, HTTP_404_NOT_FOUND,
                             "Category not found", None))
       ELSE IF product_count > 0
       THEN Some(CatalogResp("delete_category", authorization,
                             HTTP_400_BAD_REQUEST, CannotDelete(product_count),
                             None))
       ELSE None

\* what the DELETE of a categories row does to the products that name it: the
\* session sets their category_id to NULL first, or the foreign key rejects
\* the DELETE, or a database that does not enforce the key leaves them as
\* they are
RemoveOutcomes == {"nullified", "rejected", "dangling"}

\* crud_category.category.remove (line 190) and the response
delete_category_remove(cat, authorization, category_id, outcome) ==
    LET category == get_category_row(cat, category_id)
        rows == referencing(cat, category_id)
        removed == [cat EXCEPT !.categories = @ \ category]
    IN IF category = None \/ (rows # {} /\ outcome = "rejected")
       THEN [cat |-> cat,
             resp |-> CatalogResp("delete_category", authorization,
                                  HTTP_500_INTERNAL_SERVER_ERROR,
                                  "Internal Server Error", None)]
       ELSE IF outcome = "nullified"
       THEN [cat |-> [removed EXCEPT
                         !.products = {IF p \in rows
                                       THEN [p EXCEPT !.category_id = None]
                                       ELSE p : p \in @}],
             resp |-> CatalogResp("delete_category", authorization,
                                  HTTP_204_NO_CONTENT, "", None)]
       ELSE [cat |-> removed,
             resp |-> CatalogResp("delete_category", authorization,
                                  HTTP_204_NO_CONTENT, "", None)]

\* DELETE /categories/{category_id}
delete_category(db, cat, authorization, category_id, t, outcome) ==
    LET rejected == delete_category_check(db, cat, authorization, category_id, t)
    IN IF rejected # None THEN [cat |-> cat, resp |-> The(rejected)]
       ELSE delete_category_remove(cat, authorization, category_id, outcome)

\* -------------------------------------------------- app/api/v1/products.py
\* GET /products/
list_products(cat, category_id, is_active) ==
    [cat |-> cat,
     resp |-> CatalogResp("list_products", None, HTTP_200_OK, "",
                          {p.id : p \in get_multi_with_filters(cat, category_id,
                                                               is_active)})]

\* GET /products/{product_id}
get_product(cat, product_id) ==
    LET product == get_product_row(cat, product_id)
    IN IF product = None
       THEN [cat |-> cat,
             resp |-> CatalogResp("get_product", None, HTTP_404_NOT_FOUND,
                                  "Product not found", None)]
       ELSE [cat |-> cat,
             resp |-> CatalogResp("get_product", None, HTTP_200_OK, "", product)]

\* POST /products/; enforced says whether the database enforces foreign keys
create_product(db, cat, authorization, product_in, t, enforced) ==
    LET current_admin == depends_get_current_admin(db, authorization, t)
        existing == get_product_by_slug(cat, product_in.slug)
        existing_sku == get_by_sku(cat, The(product_in.sku))
        product == Product(cat.product_seq + 1, product_in)
    IN IF current_admin.status # HTTP_200_OK
       THEN [cat |-> cat,
             resp |-> CatalogResp("create_product", authorization,
                                  current_admin.status, current_admin.detail, None)]
       ELSE IF existing # None
       THEN [cat |-> cat,
             resp |-> CatalogResp("create_product", authorization,
                                  HTTP_400_BAD_REQUEST,
                                  "Product with this slug already exists", None)]
       ELSE IF product_in.sku # None /\ existing_sku # None
       THEN [cat |-> cat,
             resp |-> CatalogResp("create_product", authorization,
                                  HTTP_400_BAD_REQUEST,
                                  "Product with this SKU already exists", None)]
       ELSE IF enforced /\ ~category_id_is_known(cat, product_in.category_id)
       THEN [cat |-> cat,
             resp |-> CatalogResp("create_product", authorization,
                                  HTTP_500_INTERNAL_SERVER_ERROR,
                                  "Internal Server Error", None)]
       ELSE [cat |-> [cat EXCEPT !.products = @ \cup {product},
                                 !.product_seq = @ + 1],
             resp |-> CatalogResp("create_product", authorization,
                                  HTTP_201_CREATED, "", Some(product))]

\* PUT /products/{product_id}
update_product(db, cat, authorization, product_id, product_in, t, enforced) ==
    LET current_admin == depends_get_current_admin(db, authorization, t)
        product == get_product_row(cat, product_id)
        existing == get_product_by_slug(cat, The(product_in.slug))
        existing_sku == get_by_sku(cat, The(product_in.sku))
        updated == [The(product) EXCEPT
                       !.slug = IF product_in.slug = None THEN @
                                ELSE The(product_in.slug),
                       !.sku = IF product_in.sku = None THEN @ ELSE product_in.sku,
                       !.category_id = IF product_in.category_id = None THEN @
                                       ELSE product_in.category_id,
                       !.is_active = IF product_in.is_active = None THEN @
                                     ELSE The(product_in.is_active)]
    IN IF current_admin.status # HTTP_200_OK
       THEN [cat |-> cat,
             resp |-> CatalogResp("update_product", authorization,
                                  current_admin.status, current_admin.detail, None)]
       ELSE IF product = None
       THEN [cat |-> cat,
             resp |-> CatalogResp("update_product", authorization,
                                  HTTP_404_NOT_FOUND, "Product not found", None)]
       ELSE IF /\ product_in.slug # None
               /\ The(product_in.slug) # The(product).slug
               /\ existing # None
       THEN [cat |-> cat,
             resp |-> CatalogResp("update_product", authorization,
                                  HTTP_400_BAD_REQUEST,
                                  "Product with this slug already exists", None)]
       ELSE IF /\ product_in.sku # None
               /\ product_in.sku # The(product).sku
               /\ existing_sku # None
       THEN [cat |-> cat,
             resp |-> CatalogResp("update_product", authorization,
                                  HTTP_400_BAD_REQUEST,
                                  "Product with this SKU already exists", None)]
       ELSE IF enforced /\ ~category_id_is_known(cat, product_in.category_id)
       THEN [cat |-> cat,
             resp |-> CatalogResp("update_product", authorization,
                                  HTTP_500_INTERNAL_SERVER_ERROR,
                                  "Internal Server Error", None)]
       ELSE [cat |-> [cat EXCEPT !.products = (@ \ product) \cup {updated}],
             resp |-> CatalogResp("update_product", authorization, HTTP_200_OK,
                                  "", Some(updated))]

\* DELETE /products/{product_id}
delete_product(db, cat, authorization, product_id, t) ==
    LET current_admin == depends_get_current_admin(db, authorization, t)
        product == get_product_row(cat, product_id)
    IN IF current_admin.status # HTTP_200_OK
       THEN [cat |-> cat,
             resp |-> CatalogResp("delete_product", authorization,
                                  current_admin.status, current_admin.detail, None)]
       ELSE IF product = None
       THEN [cat |-> cat,
             resp |-> CatalogResp("delete_product", authorization,
                                  HTTP_404_NOT_FOUND, "Product not found", None)]
       ELSE [cat |-> [cat EXCEPT !.products = @ \ product],
             resp |-> CatalogResp("delete_product", authorization,
                                  HTTP_204_NO_CONTENT, "", None)]

\* ------------------------------------------------------------- the machine
Idle == [op |-> "idle"]

\* a users row written outside the handlers: the columns of app/models/user.py
\* take any flags and either role
SeedUser(is_active, is_verified, role) ==
    [User(1, [email |-> "alice@example.com", first_name |-> "Al",
              password |-> Str0ngPwd])
        EXCEPT !.is_active = is_active, !.is_verified = is_verified, !.role = role]

SeedStores ==
    {{}} \cup {{SeedUser(a, v, r)} : a \in BOOLEAN, v \in BOOLEAN, r \in UserRole}

\* the state after deployment: empty tables, the clock at its origin
InitWith(store) ==
    /\ RESEND_API_KEY \in ApiKeys
    /\ users \in store
    /\ tokens = {}
    /\ user_seq = Cardinality(users)
    /\ uuid_seq = 0
    /\ outbox = EmptyBag
    /\ now = 0
    /\ ticks = 0
    /\ resp = [op |-> "none", status |-> 0, detail |-> ""]
    /\ pc = [p \in Procs |-> Idle]
    /\ registered = {}
    /\ verified_by = {}
    /\ bearer = None
    /\ categories = {}
    /\ products = {}
    /\ category_seq = 0
    /\ product_seq = 0

Init == InitWith({{}})

\* the tables may also hold a users row written outside the handlers
InitSeeded == InitWith(SeedStores)

InBounds(db) == db.user_seq <= MaxUsers /\ db.uuid_seq <= MaxTokens

\* the store after a handler (or one of its store operations) ran
Commit(db) ==
    /\ InBounds(db)
    /\ users' = db.users
    /\ tokens' = db.tokens
    /\ user_seq' = db.user_seq
    /\ uuid_seq' = db.uuid_seq
    /\ outbox' = db.outbox

\* POST /register
Register(user_in, commit_ok, delivered) ==
    /\ IF UserCreate(user_in)
       THEN LET r == register(DB, RESEND_API_KEY, user_in, now, commit_ok, delivered)
            IN /\ Commit(r.db)
               /\ resp' = r.resp
               /\ registered' = registered \cup {u.id : u \in r.resp.user}
       ELSE /\ Commit(DB)
            /\ resp' = RegisterResp(user_in, HTTP_422_UNPROCESSABLE_ENTITY,
                                    "Validation error", None)
            /\ UNCHANGED registered
    /\ UNCHANGED <<catalog, bearer, RESEND_API_KEY, now, ticks, pc, verified_by>>

\* POST /login
Login(email, password) ==
    /\ resp' = login(DB, email, password, now)
    /\ UNCHANGED <<catalog, bearer, RESEND_API_KEY, users, tokens, user_seq, uuid_seq, outbox, now,
                   ticks, pc, registered, verified_by>>

\* POST /verify-email
VerifyEmail(token, delivered) ==
    /\ LET r == verify_email(DB, token, now, delivered)
       IN /\ Commit(r.db)
          /\ resp' = r.resp
          /\ verified_by' =
                IF r.resp.detail = "Email verified successfully"
                THEN verified_by \cup {<<k.user_id, token>> : k \in get_by_token(DB, token)}
                ELSE verified_by
    /\ UNCHANGED <<catalog, bearer, RESEND_API_KEY, now, ticks, pc, registered>>

\* POST /resend-verification
ResendVerification(email, delivered) ==
    /\ LET r == resend_verification_email(DB, email, now, delivered)
       IN /\ Commit(r.db)
          /\ resp' = r.resp
    /\ UNCHANGED <<catalog, bearer, RESEND_API_KEY, now, ticks, pc, registered, verified_by>>

\* the clock moves on by an access token's lifetime or a verification token's
Tick(d) ==
    /\ ticks < MaxTicks
    /\ now' = now + d
    /\ ticks' = ticks + 1
    /\ UNCHANGED <<catalog, bearer, RESEND_API_KEY, users, tokens, user_seq, uuid_seq, outbox, resp,
                   pc, registered, verified_by>>

TickSteps == {ACCESS_TOKEN_EXPIRE_MINUTES, hours * MinutesPerHour}
UserCreates == [email : Emails, first_name : FirstNames, password : RegisterPasswords]

\* an outcome of the store or of Resend is drawn only where the handler asks
Outcomes(asked) == IF asked THEN BOOLEAN ELSE {TRUE}

\* register reaches create_for_user, and resend its send
RegisterIssues(user_in) ==
    /\ UserCreate(user_in)
    /\ register_check(DB, user_in) = None
    /\ EmailConfigured(RESEND_API_KEY)
ResendIssues(email) == resend_check(DB, email) = None
VerifySends(token) ==
    verify_email(DB, token, now, TRUE).resp.detail = "Email verified successfully"

Next ==
    \/ \E user_in \in UserCreates :
          \E commit_ok \in Outcomes(RegisterIssues(user_in)) :
             \E delivered \in Outcomes(RegisterIssues(user_in) /\ commit_ok) :
                Register(user_in, commit_ok, delivered)
    \/ \E email \in Emails, password \in LoginPasswords : Login(email, password)
    \/ \E token \in TokenStrs :
          \E delivered \in Outcomes(VerifySends(token)) : VerifyEmail(token, delivered)
    \/ \E email \in Emails :
          \E delivered \in Outcomes(ResendIssues(email)) :
             ResendVerification(email, delivered)
    \/ \E d \in TickSteps : Tick(d)

Spec == Init /\ [][Next]_vars

SpecSeeded == InitSeeded /\ [][Next]_vars

\* --------------------------------------- requests that interleave in the store
\* A request in flight stands before its next store operation; every store
\* operation commits on its own, so another request may run between two of them.

\* a request is taken by the first free worker
Free(p) == pc[p] = Idle /\ (p = "r1" \/ pc["r1"] # Idle)

\* POST /register arrives and reads get_by_email (lines 33-39)
RegisterBegin(p, user_in) ==
    /\ Free(p)
    /\ UserCreate(user_in)
    /\ LET rejected == register_check(DB, user_in)
       IN IF rejected # None
          THEN resp' = The(rejected) /\ UNCHANGED pc
          ELSE /\ pc' = [pc EXCEPT ![p] = [op |-> "register", step |-> "create",
                                           user_in |-> user_in]]
               /\ UNCHANGED resp
    /\ UNCHANGED <<catalog, bearer, RESEND_API_KEY, users, tokens, user_seq, uuid_seq, outbox, now,
                   ticks, registered, verified_by>>

\* crud_user.create (line 42)
RegisterCreate(p) ==
    /\ pc[p].op = "register" /\ pc[p].step = "create"
    /\ LET c == register_create(DB, pc[p].user_in)
       IN /\ Commit(c.db)
          /\ registered' = registered \cup {u.id : u \in c.user}
          /\ IF c.resp # None
             THEN resp' = The(c.resp) /\ pc' = [pc EXCEPT ![p] = Idle]
             ELSE /\ pc' = [pc EXCEPT ![p] = [op |-> "register", step |-> "finish",
                                              user_in |-> pc[p].user_in,
                                              user |-> The(c.user)]]
                  /\ UNCHANGED resp
    /\ UNCHANGED <<catalog, bearer, RESEND_API_KEY, now, ticks, verified_by>>

\* the token and the e-mail, or the auto-verification (lines 44-63)
RegisterFinish(p, commit_ok, delivered) ==
    /\ pc[p].op = "register" /\ pc[p].step = "finish"
    /\ LET r == register_finish(DB, RESEND_API_KEY, pc[p].user_in, pc[p].user, now,
                                commit_ok, delivered)
       IN /\ Commit(r.db)
          /\ resp' = r.resp
    /\ pc' = [pc EXCEPT ![p] = Idle]
    /\ UNCHANGED <<catalog, bearer, RESEND_API_KEY, now, ticks, registered, verified_by>>

\* POST /resend-verification arrives and reads the user (lines 237-249)
ResendBegin(p, email) ==
    /\ Free(p)
    /\ LET rejected == resend_check(DB, email)
       IN IF rejected # None
          THEN resp' = The(rejected) /\ UNCHANGED pc
          ELSE /\ pc' = [pc EXCEPT ![p] = [op |-> "resend", step |-> "delete",
                                           user |-> The(get_by_email(DB, email))]]
               /\ UNCHANGED resp
    /\ UNCHANGED <<catalog, bearer, RESEND_API_KEY, users, tokens, user_seq, uuid_seq, outbox, now,
                   ticks, registered, verified_by>>

\* verification_token.delete_by_user_id (line 252)
ResendDelete(p) ==
    /\ pc[p].op = "resend" /\ pc[p].step = "delete"
    /\ Commit(delete_by_user_id(DB, pc[p].user.id).db)
    /\ pc' = [pc EXCEPT ![p] = [op |-> "resend", step |-> "create",
                                user |-> pc[p].user]]
    /\ UNCHANGED <<catalog, bearer, RESEND_API_KEY, now, ticks, resp, registered, verified_by>>

\* verification_token.create_for_user (line 255)
ResendCreate(p) ==
    /\ pc[p].op = "resend" /\ pc[p].step = "create"
    /\ LET c == create_for_user(DB, pc[p].user.id, now, TRUE)
       IN /\ Commit(c.db)
          /\ pc' = [pc EXCEPT ![p] = [op |-> "resend", step |-> "send",
                                      user |-> pc[p].user,
                                      token |-> The(c.token).token]]
    /\ UNCHANGED <<catalog, bearer, RESEND_API_KEY, now, ticks, resp, registered, verified_by>>

\* send_verification_email and the response (lines 257-271)
ResendSend(p, delivered) ==
    /\ pc[p].op = "resend" /\ pc[p].step = "send"
    /\ LET r == resend_send(DB, pc[p].user.email, pc[p].token, delivered)
       IN /\ Commit(r.db)
          /\ resp' = r.resp
    /\ pc' = [pc EXCEPT ![p] = Idle]
    /\ UNCHANGED <<catalog, bearer, RESEND_API_KEY, now, ticks, registered, verified_by>>

\* register calls interleave; the other requests run between their steps
NextRegisterRace ==
    \/ \E p \in Procs, user_in \in UserCreates : RegisterBegin(p, user_in)
    \/ \E p \in Procs : RegisterCreate(p)
    \/ \E p \in Procs :
          \E commit_ok \in Outcomes(EmailConfigured(RESEND_API_KEY)) :
             \E delivered \in Outcomes(EmailConfigured(RESEND_API_KEY) /\ commit_ok) :
                RegisterFinish(p, commit_ok, delivered)
    \/ \E email \in Emails, password \in LoginPasswords : Login(email, password)
    \/ \E d \in TickSteps : Tick(d)

SpecRegisterRace == Init /\ [][NextRegisterRace]_vars

\* a user created through crud_user.create alone, as test_crud.py does: active,
\* unverified, a customer, and without a token
InitUnverified ==
    /\ InitWith({{SeedUser(TRUE, FALSE, CUSTOMER)}})
    /\ EmailConfigured(RESEND_API_KEY)

\* resend-verification calls interleave; the other requests run between their steps
NextResendRace ==
    \/ \E p \in Procs, email \in Emails : ResendBegin(p, email)
    \/ \E p \in Procs : ResendDelete(p)
    \/ \E p \in Procs : ResendCreate(p)
    \/ \E p \in Procs, delivered \in BOOLEAN : ResendSend(p, delivered)
    \/ \E token \in TokenStrs :
          \E delivered \in Outcomes(VerifySends(token)) : VerifyEmail(token, delivered)
    \/ \E d \in {hours * MinutesPerHour} : Tick(d)

SpecResendRace == InitUnverified /\ [][NextResendRace]_vars

\* the requests one at a time, over a store that already holds the unverified user
SpecUnverified == InitUnverified /\ [][Next]_vars

\* POST /verify-email arrives and makes its reads, is_verified last (lines
\* 179-205)
VerifyBegin(p, token) ==
    /\ Free(p)
    /\ LET returned == verify_check(DB, token, now)
       IN IF returned # None
          THEN resp' = The(returned) /\ UNCHANGED pc
          ELSE /\ pc' = [pc EXCEPT ![p] = [op |-> "verify_email", step |-> "commit",
                                           token |-> token,
                                           user |-> The(get(DB, The(get_by_token(
                                                        DB, token)).user_id))]]
               /\ UNCHANGED resp
    /\ UNCHANGED <<catalog, bearer, RESEND_API_KEY, users, tokens, user_seq, uuid_seq, outbox, now,
                   ticks, registered, verified_by>>

\* user.is_verified = True; db.commit() (lines 208-209)
VerifyCommit(p) ==
    /\ pc[p].op = "verify_email" /\ pc[p].step = "commit"
    /\ Commit(set_verified(DB, pc[p].user.id))
    /\ verified_by' = verified_by \cup {<<pc[p].user.id, pc[p].token>>}
    /\ pc' = [pc EXCEPT ![p] = [@ EXCEPT !.step = "delete"]]
    /\ UNCHANGED <<catalog, bearer, RESEND_API_KEY, now, ticks, resp, registered>>

\* verification_token.delete_by_token (line 211)
VerifyDelete(p) ==
    /\ pc[p].op = "verify_email" /\ pc[p].step = "delete"
    /\ Commit(delete_by_token(DB, pc[p].token).db)
    /\ pc' = [pc EXCEPT ![p] = [@ EXCEPT !.step = "send"]]
    /\ UNCHANGED <<catalog, bearer, RESEND_API_KEY, now, ticks, resp, registered, verified_by>>

\* send_welcome_email and the response (lines 213-222)
VerifySend(p, delivered) ==
    /\ pc[p].op = "verify_email" /\ pc[p].step = "send"
    /\ LET r == verify_send(DB, pc[p].token, pc[p].user, delivered)
       IN /\ Commit(r.db)
          /\ resp' = r.resp
    /\ pc' = [pc EXCEPT ![p] = Idle]
    /\ UNCHANGED <<catalog, bearer, RESEND_API_KEY, now, ticks, registered, verified_by>>

\* verify-email and resend-verification calls interleave at their store
\* operations
NextVerifyRace ==
    \/ \E p \in Procs, token \in TokenStrs : VerifyBegin(p, token)
    \/ \E p \in Procs : VerifyCommit(p)
    \/ \E p \in Procs : VerifyDelete(p)
    \/ \E p \in Procs, delivered \in BOOLEAN : VerifySend(p, delivered)
    \/ \E p \in Procs, email \in Emails : ResendBegin(p, email)
    \/ \E p \in Procs : ResendDelete(p)
    \/ \E p \in Procs : ResendCreate(p)
    \/ \E p \in Procs : ResendSend(p, TRUE)
    \/ \E d \in {hours * MinutesPerHour} : Tick(d)

SpecVerifyRace == InitUnverified /\ [][NextVerifyRace]_vars

\* ------------------------------------------- requests with a bearer token
\* the client keeps the access token of the login or refresh response
Keep ==
    /\ resp.op \in {"login", "refresh"}
    /\ resp.status = HTTP_200_OK
    /\ bearer # resp.access_token
    /\ bearer' = resp.access_token
    /\ UNCHANGED <<catalog, RESEND_API_KEY, users, tokens, user_seq, uuid_seq, outbox, now,
                   ticks, resp, pc, registered, verified_by>>

\* a token signed with another key, and a signed token without a subject
Forged(token) == [token EXCEPT !.sig = "another-key"]
Subjectless(t) ==
    [sub |-> None, exp |-> t + ACCESS_TOKEN_EXPIRE_MINUTES, sig |-> JWT_SECRET_KEY]

\* what a client may send as its bearer token
Presented == bearer \cup {Forged(b) : b \in bearer} \cup {Subjectless(now)}

\* a request to a handler behind the gate: the handler's store and response
Gated(r) ==
    /\ Commit(r.db)
    /\ resp' = r.resp
    /\ UNCHANGED <<catalog, bearer, RESEND_API_KEY, now, ticks, pc, registered, verified_by>>

\* POST /refresh
Refresh(token) == Gated(refresh_token(DB, token, now))

\* GET /me
GetMe(token) == Gated(get_current_user_info(DB, token, now))

\* PUT /me
UpdateMe(token, user_in) == Gated(update_current_user(DB, token, user_in, now))

\* a request to a handler behind get_current_admin
AdminOnly(token) == Gated(admin_only(DB, token, now))

UserUpdates == [first_name : {None} \cup {Some(n) : n \in UpdateNames}]

\* an operator deactivates an account: is_active is written outside the handlers
Deactivate(id) ==
    /\ \E u \in users : u.id = id /\ u.is_active
    /\ users' = {IF u.id = id THEN [u EXCEPT !.is_active = FALSE] ELSE u : u \in users}
    /\ UNCHANGED <<catalog, bearer, RESEND_API_KEY, tokens, user_seq, uuid_seq, outbox, now,
                   ticks, resp, pc, registered, verified_by>>

\* the DELETE on a verification_tokens table whose foreign key does not cascade
DeleteUnverifiedUsersWithoutCascade ==
    /\ \E u \in users : ~u.is_verified
    /\ users' = {u \in users : u.is_verified}
    /\ UNCHANGED <<catalog, bearer, RESEND_API_KEY, tokens, user_seq, uuid_seq, outbox, now,
                   ticks, resp, pc, registered, verified_by>>

\* delete_unverified_users.py: DELETE FROM users WHERE is_verified = false; the
\* foreign key of verification_tokens cascades
DeleteUnverifiedUsers ==
    /\ \E u \in users : ~u.is_verified
    /\ users' = {u \in users : u.is_verified}
    /\ tokens' = {k \in tokens : \E u \in users' : u.id = k.user_id}
    /\ UNCHANGED <<catalog, bearer, RESEND_API_KEY, user_seq, uuid_seq, outbox, now, ticks,
                   resp, pc, registered, verified_by>>

\* crud user.delete(db, id), as test_crud.py calls it; the foreign key of
\* verification_tokens cascades
DeleteUser(id) ==
    /\ \E u \in users : u.id = id
    /\ users' = {u \in users : u.id # id}
    /\ tokens' = {k \in tokens : k.user_id # id}
    /\ UNCHANGED <<catalog, bearer, RESEND_API_KEY, user_seq, uuid_seq, outbox, now, ticks,
                   resp, pc, registered, verified_by>>

\* the clock also stops half-way through an access token's lifetime
SessionTickSteps == {ACCESS_TOKEN_EXPIRE_MINUTES \div 2} \cup TickSteps

\* the store holds one user, with any flags and either role
InitSession ==
    /\ InitWith(SeedStores \ {{}})
    /\ EmailConfigured(RESEND_API_KEY)

NextSession ==
    \/ \E email \in Emails, password \in LoginPasswords : Login(email, password)
    \/ Keep
    \/ \E token \in Presented : Refresh(token)
    \/ \E token \in Presented : GetMe(token)
    \/ \E token \in Presented, user_in \in UserUpdates : UpdateMe(token, user_in)
    \/ \E token \in Presented : AdminOnly(token)
    \/ \E id \in 1..MaxUsers : Deactivate(id)
    \/ DeleteUnverifiedUsers
    \/ \E id \in 1..MaxUsers : DeleteUser(id)
    \/ \E token \in TokenStrs :
          \E delivered \in Outcomes(VerifySends(token)) : VerifyEmail(token, delivered)
    \/ \E email \in Emails : ResendVerification(email, TRUE)
    \/ \E d \in SessionTickSteps : Tick(d)

SpecSession == InitSession /\ [][NextSession]_vars

\* the maintenance sweep: cleanup_expired run by a periodic job; resp keeps
\* the count it returned
CleanupExpired ==
    /\ LET c == cleanup_expired(DB, now)
       IN /\ Commit(c.db)
          /\ resp' = [op |-> "cleanup_expired", status |-> 0, detail |-> "",
                      result |-> c.result]
    /\ UNCHANGED <<catalog, bearer, RESEND_API_KEY, now, ticks, pc, registered, verified_by>>

\* the requests with a bearer token, the outside writes and the sweep
NextMaintenance ==
    \/ NextSession
    \/ CleanupExpired

SpecMaintenance == InitSession /\ [][NextMaintenance]_vars

\* an operator deletes a user while no request is in flight
DeleteUserAtRest(id) ==
    /\ \A p \in Procs : pc[p] = Idle
    /\ DeleteUser(id)

\* the resend-verification race, and what can then take a left-over token out
\* of the store: the sweep and the deletion of its owner
NextLeftover ==
    \/ NextResendRace
    \/ CleanupExpired
    \/ \E id \in 1..MaxUsers : DeleteUserAtRest(id)

SpecLeftover == InitUnverified /\ [][NextLeftover]_vars

\* the access token of the response just received, if it carries one
Received ==
    IF resp.op \in {"login", "refresh"} /\ resp.status = HTTP_200_OK
    THEN resp.access_token ELSE {}

\* every endpoint of the auth router, over a store only the endpoints write; a
\* client that has just received an access token goes on with it
NextAccount ==
    \/ Next
    \/ \E token \in Received : Refresh(token)
    \/ \E token \in Received : GetMe(token)
    \/ \E token \in Received, user_in \in UserUpdates : UpdateMe(token, user_in)
    \/ \E token \in Received : AdminOnly(token)

SpecAccount == Init /\ [][NextAccount]_vars

\* ------------------------------------------------- requests to the catalog
Cat == [categories |-> categories, products |-> products,
        category_seq |-> category_seq, product_seq |-> product_seq]

\* the catalog tables and the response after a handler ran
CatalogCommit(r) ==
    /\ r.cat.category_seq <= MaxCategories
    /\ r.cat.product_seq <= MaxProducts
    /\ categories' = r.cat.categories
    /\ products' = r.cat.products
    /\ category_seq' = r.cat.category_seq
    /\ product_seq' = r.cat.product_seq
    /\ resp' = r.resp

CatalogRequest(r) ==
    /\ CatalogCommit(r)
    /\ UNCHANGED <<bearer, RESEND_API_KEY, users, tokens, user_seq, uuid_seq, outbox,
                   now, ticks, pc, registered, verified_by>>

\* the access token the user was issued
Issued(id) == create_access_token(id, ACCESS_TOKEN_EXPIRE_MINUTES, now)

\* the Authorization header of a request: missing, the token of the admin or
\* of the customer, or a forged one
Authorizations == {None, Some(Issued(1)), Some(Issued(2)), Some(Forged(Issued(1)))}

\* a new category is active, the default of CategoryBase.is_active
CategoryCreates == [slug : CategorySlugs, is_active : {TRUE}]
\* an update sets one field, or none
CategoryUpdates ==
    {category_in \in [slug : {None} \cup {Some(x) : x \in CategorySlugs},
                      is_active : {None} \cup {Some(b) : b \in BOOLEAN}] :
        category_in.slug = None \/ category_in.is_active = None}

\* the outcomes of a write that names a category: the foreign key matters
\* only when the category is not there
ForeignKey(category_id) ==
    IF category_id_is_known(Cat, category_id) THEN {TRUE} ELSE BOOLEAN

\* the outcomes of a DELETE of the category: they differ only when a product
\* names it
Removals(category_id) ==
    IF referencing(Cat, category_id) = {} THEN {"nullified"} ELSE RemoveOutcomes
CategoryIds == {None} \cup {Some(id) : id \in 1..MaxCategories}
\* a new product is active, the default of ProductBase.is_active
ProductCreates ==
    [slug : ProductSlugs, sku : {None} \cup {Some(x) : x \in Skus},
     category_id : CategoryIds, is_active : {TRUE}]
\* an update sets one field, or none
ProductUpdates ==
    {product_in \in [slug : {None} \cup {Some(x) : x \in ProductSlugs},
                     sku : {None} \cup {Some(x) : x \in Skus},
                     category_id : CategoryIds,
                     is_active : {None} \cup {Some(b) : b \in BOOLEAN}] :
        Cardinality({f \in {"slug", "sku", "category_id", "is_active"} :
                        product_in[f] # None}) <= 1}

ListCategories(is_active) == CatalogRequest(list_categories(Cat, is_active))

GetCategory(category_id) == CatalogRequest(get_category(Cat, category_id))

CreateCategory(authorization, category_in) ==
    CatalogRequest(create_category(DB, Cat, authorization, category_in, now))

UpdateCategory(authorization, category_id, category_in) ==
    CatalogRequest(update_category(DB, Cat, authorization, category_id,
                                   category_in, now))

DeleteCategory(authorization, category_id, outcome) ==
    CatalogRequest(delete_category(DB, Cat, authorization, category_id, now,
                                   outcome))

ListProducts(category_id, is_active) ==
    CatalogRequest(list_products(Cat, category_id, is_active))

GetProduct(product_id) == CatalogRequest(get_product(Cat, product_id))

CreateProduct(authorization, product_in, enforced) ==
    CatalogRequest(create_product(DB, Cat, authorization, product_in, now,
                                  enforced))

UpdateProduct(authorization, product_id, product_in, enforced) ==
    CatalogRequest(update_product(DB, Cat, authorization, product_id, product_in,
                                  now, enforced))

DeleteProduct(authorization, product_id) ==
    CatalogRequest(delete_product(DB, Cat, authorization, product_id, now))

\* a second users row: a verified customer
SeedCustomer ==
    [User(2, [email |-> "bob@example.com", first_name |-> "Al",
              password |-> Str0ngPwd])
        EXCEPT !.is_verified = TRUE]

\* the store holds an admin and a customer, both active and verified
InitCatalog ==
    /\ InitWith({{SeedUser(TRUE, TRUE, ADMIN), SeedCustomer}})
    /\ EmailConfigured(RESEND_API_KEY)

NextCatalog ==
    \/ \E is_active \in BOOLEAN : ListCategories(is_active)
    \/ \E id \in 1..MaxCategories : GetCategory(id)
    \/ \E a \in Authorizations, category_in \in CategoryCreates :
          CreateCategory(a, category_in)
    \/ \E a \in Authorizations, id \in 1..MaxCategories,
          category_in \in CategoryUpdates : UpdateCategory(a, id, category_in)
    \/ \E a \in Authorizations, id \in 1..MaxCategories :
          \E outcome \in Removals(id) : DeleteCategory(a, id, outcome)
    \/ \E category_id \in CategoryIds, is_active \in {None, Some(TRUE), Some(FALSE)} :
          ListProducts(category_id, is_active)
    \/ \E id \in 1..MaxProducts : GetProduct(id)
    \/ \E a \in Authorizations, product_in \in ProductCreates :
          \E enforced \in ForeignKey(product_in.category_id) :
              CreateProduct(a, product_in, enforced)
    \/ \E a \in Authorizations, id \in 1..MaxProducts, product_in \in ProductUpdates :
          \E enforced \in ForeignKey(product_in.category_id) :
              UpdateProduct(a, id, product_in, enforced)
    \/ \E a \in Authorizations, id \in 1..MaxProducts : DeleteProduct(a, id)
    \/ Deactivate(1)

SpecCatalog == InitCatalog /\ [][NextCatalog]_vars

\* DELETE /categories/{category_id} arrives and makes its reads, the count of
\* the products last (lines 174-188)
DeleteCategoryBegin(p, authorization, category_id) ==
    /\ Free(p)
    /\ LET rejected == delete_category_check(DB, Cat, authorization, category_id, now)
       IN IF rejected # None
          THEN resp' = The(rejected) /\ UNCHANGED pc
          ELSE /\ pc' = [pc EXCEPT ![p] = [op |-> "delete_category",
                                           step |-> "remove",
                                           authorization |-> authorization,
                                           category_id |-> category_id]]
               /\ UNCHANGED resp
    /\ UNCHANGED <<catalog, bearer, RESEND_API_KEY, users, tokens, user_seq, uuid_seq,
                   outbox, now, ticks, registered, verified_by>>

\* crud_category.category.remove (line 190)
DeleteCategoryRemove(p, outcome) ==
    /\ pc[p].op = "delete_category" /\ pc[p].step = "remove"
    /\ CatalogCommit(delete_category_remove(Cat, pc[p].authorization,
                                            pc[p].category_id, outcome))
    /\ pc' = [pc EXCEPT ![p] = Idle]
    /\ UNCHANGED <<bearer, RESEND_API_KEY, users, tokens, user_seq, uuid_seq, outbox,
                   now, ticks, registered, verified_by>>

\* the store holds one active, verified admin
InitCatalogRace ==
    /\ InitWith({{SeedUser(TRUE, TRUE, ADMIN)}})
    /\ EmailConfigured(RESEND_API_KEY)

\* delete_category calls interleave; the other requests run between their steps
NextCatalogRace ==
    \/ \E p \in Procs, id \in 1..MaxCategories :
          DeleteCategoryBegin(p, Some(Issued(1)), id)
    \/ \E p \in {q \in Procs : pc[q].op = "delete_category"} :
          \E outcome \in Removals(pc[p].category_id) : DeleteCategoryRemove(p, outcome)
    \/ \E category_in \in CategoryCreates : CreateCategory(Some(Issued(1)), category_in)
    \/ \E product_in \in ProductCreates :
          \E enforced \in ForeignKey(product_in.category_id) :
              CreateProduct(Some(Issued(1)), product_in, enforced)
    \/ \E id \in 1..MaxProducts, product_in \in ProductUpdates :
          \E enforced \in ForeignKey(product_in.category_id) :
              UpdateProduct(Some(Issued(1)), id, product_in, enforced)
    \/ \E id \in 1..MaxProducts : DeleteProduct(Some(Issued(1)), id)

SpecCatalogRace == InitCatalogRace /\ [][NextCatalogRace]_vars

\* ------------------------------------------------------------------ claims
Flags == BOOLEAN
LastIs(op) == resp.op = op

\* C1: every login call decides in the order credentials, is_active,
\* is_verified: no user with the email or a password that does not match gives
\* 401 whatever the flags; else an inactive user gives 400; else an unverified
\* user gives 403; else 200 with a bearer token. So 403 goes only to a caller
\* with the correct password of an active account.
C1_LoginOrder ==
    [][\A email \in Emails, password \in LoginPasswords :
          Login(email, password) =>
             LET matching == {u \in users : /\ u.email = email
                                            /\ verify_password(password,
                                                               u.hashed_password)}
             IN /\ matching = {} =>
                      /\ resp'.status = HTTP_401_UNAUTHORIZED
                      /\ resp'.detail = "Incorrect email or password"
                /\ \A u \in matching :
                      /\ ~u.is_active => resp'.status = HTTP_400_BAD_REQUEST
                      /\ u.is_active /\ ~u.is_verified =>
                            resp'.status = HTTP_403_FORBIDDEN
                      /\ u.is_active /\ u.is_verified =>
                            /\ resp'.status = HTTP_200_OK
                            /\ resp'.access_token # None
                /\ resp'.status # HTTP_200_OK => resp'.access_token = None
                /\ resp'.status = HTTP_403_FORBIDDEN =>
                      \E u \in matching : u.is_active /\ ~u.is_verified]_vars

\* a login with the correct password of a user that is inactive and unverified
\* was answered 400
C1_Witness ==
    /\ LastIs("login")
    /\ resp.status = HTTP_400_BAD_REQUEST
    /\ \E u \in users : /\ u.email = resp.email
                        /\ verify_password(resp.password, u.hashed_password)
                        /\ ~u.is_active
                        /\ ~u.is_verified

\* C2: with e-mail delivery unconfigured, register of a valid email+password
\* whose email is not yet registered returns a user with is_verified = true, a
\* login with the same email and password right after it succeeds, and
\* get_current_user resolves the returned access token to the id register created.
C2_AutoVerifyRoundTrip ==
    [][\A user_in \in UserCreates, commit_ok \in Flags, delivered \in Flags :
          (/\ ~EmailConfigured(RESEND_API_KEY)
           /\ UserCreate(user_in)
           /\ \A u \in users : u.email # user_in.email
           /\ Register(user_in, commit_ok, delivered)) =>
             /\ resp'.status = HTTP_201_CREATED
             /\ resp'.user # None
             /\ \A created \in resp'.user :
                   /\ created.is_verified
                   /\ created.email = user_in.email
                   /\ created \in users' \ users
                   /\ LET l == login(DB', user_in.email, user_in.password, now')
                      IN /\ l.status = HTTP_200_OK
                         /\ l.access_token # None
                         /\ \A access_token \in l.access_token :
                               LET c == get_current_user(DB', access_token, now')
                               IN /\ c.status = HTTP_200_OK
                                  /\ c.user # None
                                  /\ \A current \in c.user : current.id = created.id
      ]_vars

\* delivery is unconfigured and a login was answered with a token that
\* get_current_user resolves to a user register created
C2_Witness ==
    /\ ~EmailConfigured(RESEND_API_KEY)
    /\ LastIs("login")
    /\ resp.status = HTTP_200_OK
    /\ \E access_token \in resp.access_token :
          \E current \in get_current_user(DB, access_token, now).user :
             /\ current.id \in registered
             /\ current.email = resp.email

\* C3: with delivery configured, no login returns an access token for a user
\* register created before a verify-email call with a stored, unexpired token of
\* that user has succeeded; until then a login with the correct password of the
\* active account is answered 403.
C3_NoTokenBeforeVerification ==
    [][\A email \in Emails, password \in LoginPasswords :
          (EmailConfigured(RESEND_API_KEY) /\ Login(email, password)) =>
             \A u \in users :
                (u.email = email /\ u.id \in registered) =>
                   LET verified == \E x \in verified_by : x[1] = u.id
                   IN /\ resp'.status = HTTP_200_OK => verified
                      /\ (/\ ~verified
                          /\ u.is_active
                          /\ verify_password(password, u.hashed_password)) =>
                            /\ resp'.status = HTTP_403_FORBIDDEN
                            /\ resp'.access_token = None]_vars

\* delivery is configured and a user register created logged in, after a
\* verify-email call verified it
C3_Witness ==
    /\ EmailConfigured(RESEND_API_KEY)
    /\ LastIs("login")
    /\ resp.status = HTTP_200_OK
    /\ \E u \in users : /\ u.email = resp.email
                        /\ u.id \in registered
                        /\ \E x \in verified_by : x[1] = u.id

\* C4: register with an email that a user already has is answered 400
\* DuplicateEmail and changes nothing: no user created or modified, no token
\* created, no e-mail sent.
C4_DuplicateEmailChangesNothing ==
    [][\A user_in \in UserCreates, commit_ok \in Flags, delivered \in Flags :
          (/\ UserCreate(user_in)
           /\ \E u \in users : u.email = user_in.email
           /\ Register(user_in, commit_ok, delivered)) =>
             /\ resp'.status = HTTP_400_BAD_REQUEST
             /\ resp'.detail = "User with this email already exists"
             /\ resp'.user = None
             /\ UNCHANGED <<users, tokens, outbox, user_seq, uuid_seq>>]_vars

\* a register for the email of an existing user was answered 400
C4_Witness ==
    /\ LastIs("register")
    /\ resp.status = HTTP_400_BAD_REQUEST
    /\ \E u \in users : u.email = resp.email /\ u.id \in registered

\* C5: in every reachable state no two users share an email, also when two
\* register calls for one email interleave between the get_by_email check and
\* the insert: the insert of the second finds the email taken, is rejected by
\* the unique index (not by the DuplicateEmail check) and adds no row.
C5_EmailUnique ==
    /\ [](\A u, v \in users : u.email = v.email => u = v)
    /\ [][\A p \in Procs :
             (/\ pc[p].op = "register"
              /\ pc[p].step = "create"
              /\ \E u \in users : u.email = pc[p].user_in.email
              /\ RegisterCreate(p)) =>
                /\ resp'.status = HTTP_500_INTERNAL_SERVER_ERROR
                /\ resp'.email = pc[p].user_in.email
                /\ UNCHANGED <<users, tokens, outbox>>]_vars

\* a register call passed the DuplicateEmail check and was then rejected by the
\* unique index: the email belongs to the user another call created meanwhile
C5_Witness ==
    /\ LastIs("register")
    /\ resp.status = HTTP_500_INTERNAL_SERVER_ERROR
    /\ Cardinality({u \in users : u.email = resp.email}) = 1

\* C6: with delivery configured, register creates the user with is_verified =
\* false and issues one verification token for it; when creating the token or
\* sending the e-mail fails the failure is swallowed: register still answers 201
\* with the created user, which stays unverified.
C6_RegisterSwallowsDeliveryFailure ==
    [][\A user_in \in UserCreates, commit_ok \in Flags, delivered \in Flags :
          (/\ EmailConfigured(RESEND_API_KEY)
           /\ UserCreate(user_in)
           /\ \A u \in users : u.email # user_in.email
           /\ Register(user_in, commit_ok, delivered)) =>
             /\ resp'.status = HTTP_201_CREATED
             /\ \E created \in users' :
                   /\ users' = users \cup {created}
                   /\ created \notin users
                   /\ created.email = user_in.email
                   /\ ~created.is_verified
                   /\ resp'.user = {created}
                   /\ IF commit_ok
                      THEN \E k \in tokens' :
                              /\ tokens' = tokens \cup {k}
                              /\ k \notin tokens
                              /\ k.user_id = created.id
                              /\ outbox' = outbox (+)
                                    SetToBag({[kind |-> "verification",
                                               to |-> user_in.email,
                                               token |-> {k.token},
                                               delivered |-> delivered]})
                      ELSE UNCHANGED <<tokens, outbox>>]_vars

\* register answered 201 with an unverified user although the verification
\* e-mail to it was not delivered
C6_Witness ==
    /\ LastIs("register")
    /\ resp.status = HTTP_201_CREATED
    /\ \E u \in resp.user : u \in users /\ ~u.is_verified
    /\ \E m \in BagToSet(outbox) :
          m.kind = "verification" /\ m.to = resp.email /\ ~m.delivered

\* C7: verify_email with a stored, unexpired token whose owner exists and is
\* unverified sets that user's is_verified, removes exactly that token and
\* answers 200 whether or not the welcome e-mail is delivered; get_by_token no
\* longer finds the string, and a string once issued and no longer stored is
\* never stored again.
C7_VerifyConsumesToken ==
    [][/\ \A token \in TokenStrs, delivered \in Flags :
             VerifyEmail(token, delivered) =>
                \A k \in tokens, u \in users :
                   (/\ k.token = token
                    /\ now <= k.expires_at
                    /\ u.id = k.user_id
                    /\ ~u.is_verified) =>
                      /\ resp'.status = HTTP_200_OK
                      /\ resp'.detail = "Email verified successfully"
                      /\ users' = (users \ {u}) \cup {[u EXCEPT !.is_verified = TRUE]}
                      /\ tokens' = tokens \ {k}
                      /\ get_by_token(DB', token) = None
       /\ \A gone \in TokenStrs :
             (gone <= uuid_seq /\ \A k \in tokens : k.token # gone) =>
                \A k \in tokens' : k.token # gone]_vars

\* a verify-email call verified a user and consumed its token, and answered 200
\* although the welcome e-mail was not delivered
C7_Witness ==
    /\ LastIs("verify_email")
    /\ resp.detail = "Email verified successfully"
    /\ \A k \in tokens : k.token # resp.token
    /\ \E u \in users :
          /\ u.is_verified
          /\ <<u.id, resp.token>> \in verified_by
          /\ \E m \in BagToSet(outbox) :
                m.kind = "welcome" /\ m.to = u.email /\ ~m.delivered

\* C8 as stated: after verify_email(T) has verified the user and deleted T, a
\* second verify_email(T) answers 200 "already verified", not an invalid-token
\* error.
C8_SecondVerifyAlreadyVerified ==
    [][\A token \in TokenStrs, delivered \in Flags :
          (/\ LastIs("verify_email")
           /\ resp.token = token
           /\ resp.detail = "Email verified successfully"
           /\ VerifyEmail(token, delivered)) =>
             /\ resp'.status = HTTP_200_OK
             /\ resp'.detail = "Email already verified"]_vars

\* C8 amended: after verify_email(T) has verified the user and deleted T, a
\* second verify_email(T) is answered 400 "Invalid verification token"; it
\* changes nothing and the user stays verified.
C8_SecondVerifyInvalidToken ==
    [][\A token \in TokenStrs, delivered \in Flags :
          (/\ LastIs("verify_email")
           /\ resp.token = token
           /\ resp.detail = "Email verified successfully"
           /\ VerifyEmail(token, delivered)) =>
             /\ resp'.status = HTTP_400_BAD_REQUEST
             /\ resp'.detail = "Invalid verification token"
             /\ UNCHANGED <<users, tokens, outbox>>
             /\ \A u \in users' : <<u.id, token>> \in verified_by => u.is_verified
      ]_vars

\* the token that verified a user was presented again and answered 400 invalid
C8_Witness ==
    /\ LastIs("verify_email")
    /\ resp.status = HTTP_400_BAD_REQUEST
    /\ resp.detail = "Invalid verification token"
    /\ \E u \in users : u.is_verified /\ <<u.id, resp.token>> \in verified_by

\* C9: when a user owns two different stored, unexpired tokens T1 and T2,
\* verify_email(T1) followed by verify_email(T2) answers the second call 200
\* and leaves the user verified, whatever happens to the welcome e-mails.
C9_TwoTokensSecondVerifySucceeds ==
    \A k1 \in tokens, k2 \in tokens :
       (/\ k1 # k2
        /\ k1.user_id = k2.user_id
        /\ now <= k1.expires_at
        /\ now <= k2.expires_at
        /\ \E u \in users : u.id = k1.user_id) =>
          \A d1 \in Flags, d2 \in Flags :
             LET call1 == verify_email(DB, k1.token, now, d1)
                 call2 == verify_email(call1.db, k2.token, now, d2)
             IN /\ call1.resp.status = HTTP_200_OK
                /\ call2.resp.status = HTTP_200_OK
                /\ call2.resp.detail = "Email already verified"
                /\ \A u \in call2.db.users : u.id = k1.user_id => u.is_verified

\* a user owned two stored tokens; a verify-email call with the later one
\* verified it, and the call with the earlier one was then answered 200
\* "already verified"
C9_Witness ==
    /\ LastIs("verify_email")
    /\ resp.status = HTTP_200_OK
    /\ resp.detail = "Email already verified"
    /\ \E k2 \in tokens, x \in verified_by :
          /\ k2.token = resp.token
          /\ x[1] = k2.user_id
          /\ k2.token < x[2]
          /\ \E u \in users : u.id = k2.user_id /\ u.is_verified

\* C10: verify_email with a string that is not stored is answered 400 invalid
\* token, and with a stored token whose expiry has passed 400 token expired; in
\* both cases no user changes, no token is deleted and no e-mail is sent.
C10_RejectedVerifyChangesNothing ==
    [][\A token \in TokenStrs, delivered \in Flags :
          VerifyEmail(token, delivered) =>
             /\ (\A k \in tokens : k.token # token) =>
                   /\ resp'.status = HTTP_400_BAD_REQUEST
                   /\ resp'.detail = "Invalid verification token"
                   /\ UNCHANGED <<users, tokens, outbox>>
             /\ \A k \in tokens :
                   (k.token = token /\ now > k.expires_at) =>
                      /\ resp'.status = HTTP_400_BAD_REQUEST
                      /\ resp'.detail = "Verification token has expired"
                      /\ UNCHANGED <<users, tokens, outbox>>]_vars

\* a stored token was presented after its expiry, answered 400 expired, and is
\* still stored
C10_Witness ==
    /\ LastIs("verify_email")
    /\ resp.status = HTTP_400_BAD_REQUEST
    /\ resp.detail = "Verification token has expired"
    /\ \E k \in tokens : k.token = resp.token /\ now > k.expires_at

\* the instants a token is looked at: now, and just before, at and just after
\* the expiry of each stored token
Instants == {now} \cup {k.expires_at + d : k \in tokens, d \in {-1, 0, 1}}

\* C11: for every token string and every instant, is_valid answers (true, none)
\* exactly when a token with the string is stored and the instant is not after
\* its expires_at (the expiry instant itself is still valid), (false, invalid)
\* when no token with the string is stored, and (false, expired) when it is
\* stored and the instant is after expires_at; a token just created expires 24
\* hours after its creation.
C11_IsValidIffStoredAndNotExpired ==
    /\ [](\A token \in TokenStrs, t \in Instants :
            LET stored == {k \in tokens : k.token = token}
                answer == is_valid(DB, token, t)
            IN /\ answer = <<TRUE, "">> <=> \E k \in stored : t <= k.expires_at
               /\ stored = {} => answer = <<FALSE, "Invalid verification token">>
               /\ \A k \in stored :
                     t > k.expires_at =>
                        answer = <<FALSE, "Verification token has expired">>)
    /\ [][\A k \in tokens' \ tokens : k.expires_at = now + 24 * 60]_vars

\* a verify-email call presented a stored token exactly at its expiry instant
\* and was answered 200
C11_Witness ==
    /\ LastIs("verify_email")
    /\ resp.status = HTTP_200_OK
    /\ \E k \in tokens : k.token = resp.token /\ now = k.expires_at

\* C12: resend-verification for an email no user has is answered with the
\* generic 200 response, and for the email of a verified user with 400 already
\* verified; in both cases no user changes, no token is created or deleted and
\* no e-mail is sent.
C12_RejectedResendChangesNothing ==
    [][\A email \in Emails, delivered \in Flags :
          (resp'.op = "resend_verification" /\ resp'.email = email
              /\ ResendVerification(email, delivered)) =>
             /\ (\A u \in users : u.email # email) =>
                   /\ resp'.status = HTTP_200_OK
                   /\ resp'.detail =
                         "If the email exists, a verification link has been sent"
                   /\ UNCHANGED <<users, tokens, outbox, uuid_seq>>
             /\ \A u \in users :
                   (u.email = email /\ u.is_verified) =>
                      /\ resp'.status = HTTP_400_BAD_REQUEST
                      /\ resp'.detail = "Email already verified"
                      /\ UNCHANGED <<users, tokens, outbox, uuid_seq>>]_vars

\* a resend-verification for the email of a verified user was answered 400,
\* while another user's token is stored
C12_Witness ==
    /\ LastIs("resend_verification")
    /\ resp.status = HTTP_400_BAD_REQUEST
    /\ \E u \in users : u.email = resp.email /\ u.is_verified
    /\ tokens # {}

\* the store without the account of an email: neither its users row nor the
\* tokens of that row
WithoutAccount(db, email) ==
    LET owners == {u \in db.users : u.email = email}
    IN [db EXCEPT !.users = @ \ owners,
                  !.tokens = {k \in @ : \A u \in owners : k.user_id # u.id}]

\* C13: resend-verification does not reveal whether an account exists: the
\* status and the message it answers for an email are the same in the store as
\* it is and in the store that differs only by not holding a user with that
\* email.
C13_ResendDoesNotRevealAccount ==
    \A email \in Emails, delivered \in Flags :
       LET with == resend_verification_email(DB, email, now, delivered).resp
           without == resend_verification_email(WithoutAccount(DB, email), email,
                                                now, delivered).resp
       IN with.status = without.status /\ with.detail = without.detail

\* C14: with the requests one at a time, a resend-verification for an
\* unverified user deletes every token the user owned, stores exactly one new
\* token and leaves the tokens of other users alone; so each user owns at most
\* one stored token, and after the call every token the user owned before is
\* rejected by verify-email as invalid while the new one verifies the user.
C14_ResendReplacesTokens ==
    /\ [](\A u \in users : Cardinality({k \in tokens : k.user_id = u.id}) <= 1)
    /\ [][\A email \in Emails, delivered \in Flags :
             (resp'.op = "resend_verification" /\ resp'.email = email
              /\ ResendVerification(email, delivered)) =>
                \A u \in users :
                   (u.email = email /\ ~u.is_verified) =>
                      LET owned == {k \in tokens : k.user_id = u.id}
                      IN /\ \E fresh \in tokens' :
                               /\ tokens' = (tokens \ owned) \cup {fresh}
                               /\ fresh.user_id = u.id
                               /\ \A k \in tokens : k.token # fresh.token
                               /\ \A d \in Flags :
                                     verify_email(DB', fresh.token, now', d).resp.detail
                                        = "Email verified successfully"
                         /\ \A old \in owned, d \in Flags :
                               LET v == verify_email(DB', old.token, now', d).resp
                               IN /\ v.status = HTTP_400_BAD_REQUEST
                                  /\ v.detail = "Invalid verification token"]_vars

\* after two resend-verification calls for a user register did not create, the
\* token of the first was presented and answered 400 invalid, while the token of
\* the second is the one token the user owns
C14_Witness ==
    /\ LastIs("verify_email")
    /\ resp.status = HTTP_400_BAD_REQUEST
    /\ resp.detail = "Invalid verification token"
    /\ \E u \in users, first_mail \in BagToSet(outbox), k \in tokens :
          /\ u.id \notin registered
          /\ ~u.is_verified
          /\ first_mail.kind = "verification"
          /\ first_mail.to = u.email
          /\ first_mail.token = {resp.token}
          /\ k.user_id = u.id
          /\ k.token # resp.token
          /\ {x \in tokens : x.user_id = u.id} = {k}

\* C15: when the send fails during resend-verification for an unverified user,
\* the request is answered 500 EmailDeliveryFailed, and what the call wrote
\* before the send stays: the tokens the user owned are gone and the new token
\* is stored and valid, although its e-mail was not delivered.
C15_ResendSurfacesDeliveryFailure ==
    [][\A email \in Emails :
          (resp'.op = "resend_verification" /\ resp'.email = email
              /\ ResendVerification(email, FALSE)) =>
             \A u \in users :
                (u.email = email /\ ~u.is_verified) =>
                   LET owned == {k \in tokens : k.user_id = u.id}
                   IN /\ resp'.status = HTTP_500_INTERNAL_SERVER_ERROR
                      /\ resp'.detail = "Failed to send verification email"
                      /\ users' = users
                      /\ \E fresh \in tokens' :
                            /\ tokens' = (tokens \ owned) \cup {fresh}
                            /\ fresh \notin tokens
                            /\ fresh.user_id = u.id
                            /\ is_valid(DB', fresh.token, now') = <<TRUE, "">>
                            /\ outbox' = outbox (+)
                                  SetToBag({[kind |-> "verification", to |-> email,
                                             token |-> {fresh.token},
                                             delivered |-> FALSE]})]_vars

\* a resend-verification was answered 500; the token register had issued to the
\* user is gone, and the token of the failed call is stored and valid
C15_Witness ==
    /\ LastIs("resend_verification")
    /\ resp.status = HTTP_500_INTERNAL_SERVER_ERROR
    /\ \E u \in users, k \in tokens, m \in BagToSet(outbox), old \in BagToSet(outbox) :
          /\ u.email = resp.email
          /\ u.id \in registered
          /\ k.user_id = u.id
          /\ is_valid(DB, k.token, now) = <<TRUE, "">>
          /\ m.to = u.email /\ m.token = {k.token} /\ ~m.delivered
          /\ old.to = u.email /\ old.token # m.token
          /\ \A x \in tokens : {x.token} # old.token

\* the verification e-mails resend-verification calls have tried to send to a user
ResendMails(u) ==
    {m \in BagToSet(outbox) : m.kind = "verification" /\ m.to = u.email}

\* C16: two resend-verification calls for one unverified user that interleave
\* between delete_by_user_id and create_for_user can leave the user with two
\* stored, unexpired tokens. The race is benign: verify-email accepts each of the
\* two without an error, in either order, and the user ends verified; and once
\* both calls have completed and no token has been consumed, the user owns at
\* least one token.
C16_ResendRaceIsBenign ==
    /\ \A k1 \in tokens, k2 \in tokens :
          (/\ k1 # k2
           /\ k1.user_id = k2.user_id
           /\ now <= k1.expires_at
           /\ now <= k2.expires_at) =>
             \A d1 \in Flags, d2 \in Flags :
                LET only1 == verify_email(DB, k1.token, now, d1)
                    then2 == verify_email(only1.db, k2.token, now, d2)
                IN /\ only1.resp.status = HTTP_200_OK
                   /\ then2.resp.status = HTTP_200_OK
                   /\ \E u \in then2.db.users : u.id = k1.user_id /\ u.is_verified
                   /\ \A u \in users :
                         (u.id = k1.user_id /\ ~u.is_verified) =>
                            only1.resp.detail = "Email verified successfully"
    /\ \A u \in users :
          (/\ \A p \in Procs : pc[p] = Idle
           /\ verified_by = {}
           /\ ResendMails(u) # {}) =>
             \E k \in tokens : k.user_id = u.id

\* both resend-verification calls have completed and the user owns the two
\* tokens they created, both stored and unexpired
C16_Witness ==
    /\ \A p \in Procs : pc[p] = Idle
    /\ LastIs("resend_verification")
    /\ \E u \in users, k1 \in tokens, k2 \in tokens :
          /\ ~u.is_verified
          /\ k1.user_id = u.id /\ k2.user_id = u.id
          /\ k1.token # k2.token
          /\ now <= k1.expires_at /\ now <= k2.expires_at
          /\ \E m1 \in ResendMails(u), m2 \in ResendMails(u) :
                m1.token = {k1.token} /\ m2.token = {k2.token}

\* the users a bearer token stands for at an instant: it is signed with the
\* server's key, its exp has not passed, and its subject is the id of the user
Subjects(token, t) ==
    {u \in users : /\ token.sig = JWT_SECRET_KEY
                   /\ t <= token.exp
                   /\ token.sub = {str(u.id)}}

\* C17: the gate escalates in a fixed order. get_current_user accepts only a
\* correctly signed, unexpired token whose subject is an existing user, else 401;
\* get_current_active_user also requires is_active, else 400;
\* get_current_admin also requires role ADMIN, else 403. So an inactive
\* non-admin is answered 400, not 403, and a handler behind get_current_admin
\* runs only for an existing, active admin with a valid token.
C17_GateOrder ==
    /\ [](\A token \in Presented :
            LET who == Subjects(token, now)
                authenticated == get_current_user(DB, token, now)
                active == get_current_active_user(DB, token, now)
                admin == get_current_admin(DB, token, now)
            IN /\ who = {} =>
                     /\ authenticated.status = HTTP_401_UNAUTHORIZED
                     /\ active.status = HTTP_401_UNAUTHORIZED
                     /\ admin.status = HTTP_401_UNAUTHORIZED
               /\ \A u \in who :
                     /\ authenticated.status = HTTP_200_OK
                     /\ authenticated.user = {u}
                     /\ active.status =
                           IF u.is_active THEN HTTP_200_OK ELSE HTTP_400_BAD_REQUEST
                     /\ admin.status =
                           IF ~u.is_active THEN HTTP_400_BAD_REQUEST
                           ELSE IF u.role # ADMIN THEN HTTP_403_FORBIDDEN
                           ELSE HTTP_200_OK)
    /\ [][\A token \in Presented :
             (AdminOnly(token) /\ resp'.status = HTTP_200_OK) =>
                \E u \in Subjects(token, now) :
                   u.is_active /\ u.role = ADMIN /\ resp'.user = {u}]_vars

\* a handler behind get_current_admin answered 400 to the valid token of a user
\* that is inactive and not an admin
C17_Witness ==
    /\ LastIs("admin")
    /\ resp.status = HTTP_400_BAD_REQUEST
    /\ \E u \in Subjects(resp.bearer, now) : ~u.is_active /\ u.role # ADMIN

\* C18: the three gate checks, login and refresh leave the user store and the
\* verification-token store unchanged, whether they succeed or fail.
C18_GateLoginRefreshReadOnly ==
    [][((\E email \in Emails, password \in LoginPasswords : Login(email, password))
        \/ (\E token \in Presented :
               Refresh(token) \/ GetMe(token) \/ AdminOnly(token))) =>
          UNCHANGED <<users, tokens, user_seq, uuid_seq>>]_vars

\* a refresh was answered 401 while the token store holds an expired
\* verification token, which is still there
C18_Witness ==
    /\ LastIs("refresh")
    /\ resp.status = HTTP_401_UNAUTHORIZED
    /\ \E k \in tokens : k.expires_at < now
    /\ users # {}

\* C19: refresh with a bearer token that passes get_current_user answers a new
\* access token for the same user id that expires the configured lifetime after
\* the refresh; neither the password nor is_active or is_verified is looked at,
\* so the new token can itself be refreshed until it expires, also for a user
\* deactivated after the login. A token that does not pass is answered 401.
C19_RefreshExtendsSession ==
    [][\A token \in Presented :
          Refresh(token) =>
             /\ Subjects(token, now) = {} =>
                   /\ resp'.status = HTTP_401_UNAUTHORIZED
                   /\ resp'.access_token = None
             /\ \A u \in Subjects(token, now) :
                   /\ resp'.status = HTTP_200_OK
                   /\ resp'.access_token =
                         {[sub |-> {str(u.id)},
                           exp |-> now + ACCESS_TOKEN_EXPIRE_MINUTES,
                           sig |-> JWT_SECRET_KEY]}
                   /\ \A fresh \in resp'.access_token :
                         \A t \in {now, now + ACCESS_TOKEN_EXPIRE_MINUTES \div 2} :
                            refresh_token(DB', fresh, t).resp.status = HTTP_200_OK]_vars

\* a user deactivated after the login presented a token and was answered a
\* token that expires later than the presented one
C19_Witness ==
    /\ LastIs("refresh")
    /\ resp.status = HTTP_200_OK
    /\ \E u \in Subjects(resp.bearer, now), fresh \in resp.access_token :
          /\ ~u.is_active
          /\ fresh.sub = resp.bearer.sub
          /\ fresh.exp > resp.bearer.exp

\* the stored user a kept access token was issued to
Holder(b) == {u \in users : b.sub = {str(u.id)}}

\* C20 as stated: an access token issued by login or refresh is accepted by
\* get_current_user at every later instant before its expiry while its user
\* exists, whatever has happened since, and is rejected from its expiry on.
C20_StatelessRejectedFromExpiry ==
    \A b \in bearer :
       LET current == get_current_user(DB, b, now)
       IN /\ (now < b.exp /\ Holder(b) # {}) =>
                current.status = HTTP_200_OK /\ current.user = Holder(b)
          /\ now >= b.exp => current.status = HTTP_401_UNAUTHORIZED

\* C20 amended: an access token issued by login or refresh is accepted by
\* get_current_user at every later instant that is not past its exp, the instant
\* equal to exp included, while its user exists, whatever has happened since
\* (logins, refreshes, verify-email, resend-verification, profile updates,
\* deactivation); it is rejected once the clock is past exp, or its user is gone.
C20_StatelessRejectedAfterExpiry ==
    \A b \in bearer :
       LET current == get_current_user(DB, b, now)
       IN /\ (now <= b.exp /\ Holder(b) # {}) =>
                current.status = HTTP_200_OK /\ current.user = Holder(b)
          /\ now > b.exp => current.status = HTTP_401_UNAUTHORIZED
          /\ Holder(b) = {} => current.status = HTTP_401_UNAUTHORIZED

\* a kept token is accepted at the instant equal to its exp, after its user was
\* deactivated and a refresh issued a newer token
C20_Witness ==
    /\ LastIs("refresh")
    /\ resp.status = HTTP_200_OK
    /\ \E b \in bearer, newer \in resp.access_token, u \in users :
          /\ now = b.exp
          /\ newer.sub = b.sub
          /\ newer.exp > b.exp
          /\ u \in Holder(b)
          /\ ~u.is_active
          /\ get_current_user(DB, b, now).user = {u}

\* why get_current_user turns a token down, if it does
Rejections(token, t) ==
    {r \in {"signature", "expired", "subject", "user"} :
        \/ r = "signature" /\ token.sig # JWT_SECRET_KEY
        \/ r = "expired" /\ t > token.exp
        \/ r = "subject" /\ token.sub = None
        \/ r = "user" /\ token.sub # None /\ Holder(token) = {}}

\* C21: the caller cannot tell why a bearer token was rejected: a token with a
\* bad signature, an expired token, a token without a subject and a valid token
\* whose user no longer exists are all answered the same 401, with the same
\* detail and the same header, by get_current_user and by a handler behind it.
C21_RejectionsIndistinguishable ==
    \A t1 \in Presented, t2 \in Presented :
       (Rejections(t1, now) # {} /\ Rejections(t2, now) # {}) =>
          LET r1 == get_current_user(DB, t1, now)
              r2 == get_current_user(DB, t2, now)
              h1 == refresh_token(DB, t1, now).resp
              h2 == refresh_token(DB, t2, now).resp
          IN /\ r1.status = HTTP_401_UNAUTHORIZED
             /\ r1 = r2
             /\ r1.headers = {<<"WWW-Authenticate", "Bearer">>}
             /\ h1.status = h2.status /\ h1.detail = h2.detail

\* a refresh with the kept token was answered 401 because its user is gone,
\* while the token is still signed and unexpired; a forged copy of it and a
\* token without a subject can be presented in the same state
C21_Witness ==
    /\ LastIs("refresh")
    /\ resp.status = HTTP_401_UNAUTHORIZED
    /\ resp.bearer \in bearer
    /\ Rejections(resp.bearer, now) = {"user"}
    /\ \E t2 \in Presented : Rejections(t2, now) = {"signature", "user"}
    /\ \E t3 \in Presented : "subject" \in Rejections(t3, now)

\* C22: deleting a user deletes the verification tokens the user owns, so in
\* every reachable state the user_id of each stored token is the id of a stored
\* user and verify_email never answers 404 user not found; and no two stored
\* tokens share a token string.
C22_TokensHaveOwners ==
    /\ [](\A k \in tokens : \E u \in users : u.id = k.user_id)
    /\ [](\A k1 \in tokens, k2 \in tokens : k1.token = k2.token => k1 = k2)
    /\ [][\A token \in TokenStrs, delivered \in Flags :
             (resp'.op = "verify_email" /\ VerifyEmail(token, delivered)) =>
                resp'.status # HTTP_404_NOT_FOUND]_vars

\* the owner of a token was deleted and the token with it: presented
\* afterwards, the token was answered 400 invalid
C22_Witness ==
    /\ LastIs("verify_email")
    /\ resp.status = HTTP_400_BAD_REQUEST
    /\ resp.detail = "Invalid verification token"
    /\ users = {}
    /\ tokens = {}
    /\ verified_by = {}
    /\ \E m \in BagToSet(outbox) : m.token = {resp.token}

WriteOps == {"create_category", "update_category", "delete_category",
             "create_product", "update_product", "delete_product"}
ReadOps == {"list_categories", "get_category", "list_products", "get_product"}

\* the request carries a valid token of an active admin
FromAdmin(authorization) ==
    /\ authorization # None
    /\ The(authorization).sig = JWT_SECRET_KEY
    /\ now <= The(authorization).exp
    /\ \E u \in users : /\ The(authorization).sub = Some(str(u.id))
                        /\ u.is_active
                        /\ u.role = ADMIN

\* C24: every create, update and delete of a category or a product is admin
\* only: the catalog changes only in a write request that carries a valid
\* token of an active admin; a write request with a missing or invalid token
\* (401), from an inactive user (400) or from a non-admin (403) leaves the
\* catalog unchanged; the list and get endpoints answer without a token.
C24_CatalogWritesAdminOnly ==
    [][/\ catalog' # catalog =>
             resp'.op \in WriteOps /\ FromAdmin(resp'.authorization)
       /\ (resp'.op \in WriteOps /\ ~FromAdmin(resp'.authorization)) =>
             /\ catalog' = catalog
             /\ resp'.status \in {HTTP_401_UNAUTHORIZED, HTTP_400_BAD_REQUEST,
                                  HTTP_403_FORBIDDEN}
             /\ resp'.authorization = None => resp'.status = HTTP_401_UNAUTHORIZED
       /\ resp'.op \in ReadOps =>
             /\ resp'.authorization = None
             /\ resp'.status \in {HTTP_200_OK, HTTP_404_NOT_FOUND}]_vars

\* the delete of an admin who was deactivated is refused, and the product stays
C24_Witness ==
    /\ resp.op = "delete_product"
    /\ resp.status = HTTP_400_BAD_REQUEST
    /\ resp.detail = "Inactive user"
    /\ products # {}
    /\ categories # {}

\* C25: delete_by_token consumes idempotently: for every token string, when a
\* token with the string is stored the call removes exactly that row and
\* returns true, and when none is stored it returns false and changes nothing;
\* a second call right after the first returns false and leaves the store of
\* the first; the rows of other token strings, the users and the mail are
\* never touched. The verify-email call that verifies removes exactly the
\* token it was presented.
C25_DeleteByTokenIdempotent ==
    /\ [](\A token \in TokenStrs :
            LET stored == {k \in tokens : k.token = token}
                once == delete_by_token(DB, token)
                twice == delete_by_token(once.db, token)
            IN /\ stored # {} =>
                     /\ once.result = TRUE
                     /\ Cardinality(stored) = 1
                     /\ once.db = [DB EXCEPT !.tokens = tokens \ stored]
               /\ stored = {} => once.result = FALSE /\ once.db = DB
               /\ twice.result = FALSE
               /\ twice.db = once.db
               /\ {k \in once.db.tokens : k.token # token}
                     = {k \in tokens : k.token # token})
    /\ [][\A token \in TokenStrs, delivered \in Flags :
             (/\ resp'.op = "verify_email"
              /\ resp'.detail = "Email verified successfully"
              /\ resp'.token = token
              /\ VerifyEmail(token, delivered)) =>
                tokens' = {k \in tokens : k.token # token}]_vars

\* a verify-email call consumed its token while another token stays stored
C25_Witness ==
    /\ LastIs("verify_email")
    /\ resp.detail = "Email verified successfully"
    /\ tokens # {}
    /\ \A k \in tokens : k.token # resp.token
    /\ \E u \in users : u.is_verified /\ \A k \in tokens : k.user_id = u.id

\* C26: at every instant cleanup_expired removes exactly the stored tokens
\* with expires_at before the instant, returns their number and leaves the
\* other tokens, the users and the mail as they are; it removes no token that
\* is_valid accepts at that instant, and is_valid accepts every token it
\* leaves. The sweep step does just that to the store. An expired token
\* leaves the store only in a sweep, in a resend-verification for its owner,
\* or when its owner is deleted.
C26_CleanupExpiredSweepsExactlyExpired ==
    /\ [](\A t \in Instants :
            LET expired == {k \in tokens : k.expires_at < t}
                c == cleanup_expired(DB, t)
            IN /\ c.db = [DB EXCEPT !.tokens = tokens \ expired]
               /\ c.result = Cardinality(expired)
               /\ \A k \in tokens : is_valid(DB, k.token, t)[1] => k \in c.db.tokens
               /\ \A k \in c.db.tokens : is_valid(c.db, k.token, t)[1])
    /\ [][(resp'.op = "cleanup_expired" /\ CleanupExpired) =>
             /\ tokens' = {k \in tokens : k.expires_at >= now}
             /\ resp'.result = Cardinality(tokens \ tokens')
             /\ UNCHANGED <<users, outbox, user_seq, uuid_seq>>]_vars
    /\ [][\A k \in tokens \ tokens' :
             k.expires_at < now =>
                \/ resp'.op = "cleanup_expired" /\ CleanupExpired
                \/ \A u \in users' : u.id # k.user_id
                \/ \E u \in users :
                      /\ u.id = k.user_id
                      /\ resp'.op = "resend_verification"
                      /\ resp'.email = u.email
                      /\ ResendVerification(u.email, TRUE)]_vars

\* the sweep removed an expired token
C26_Witness ==
    /\ LastIs("cleanup_expired")
    /\ resp.result = 1
    /\ tokens = {}
    /\ users # {}

\* C27: whatever register, login, refresh, profile update, verify-email and
\* resend-verification calls run on a store only they write, no step changes
\* the role or is_active of a user, every user has role CUSTOMER and
\* is_active = true, get_current_admin succeeds for no token and login answers
\* no credentials with "Inactive user".
C27_RoleAndActiveNeverChange ==
    /\ [](/\ \A u \in users : u.role = CUSTOMER /\ u.is_active
          /\ \A id \in 1..MaxUsers :
                get_current_admin(DB, create_access_token(id,
                                                          ACCESS_TOKEN_EXPIRE_MINUTES,
                                                          now), now).status
                   \in {HTTP_401_UNAUTHORIZED, HTTP_403_FORBIDDEN}
          /\ resp.op = "admin" => resp.status # HTTP_200_OK
          /\ \A email \in Emails, password \in LoginPasswords :
                login(DB, email, password, now).detail # "Inactive user"
          /\ resp.op = "login" => resp.detail # "Inactive user")
    /\ [][\A u \in users, v \in users' :
             u.id = v.id => v.role = u.role /\ v.is_active = u.is_active]_vars

\* a registered user who is verified and logged in asks for an admin route
\* and is refused as a non-admin
C27_Witness ==
    /\ LastIs("admin")
    /\ resp.status = HTTP_403_FORBIDDEN
    /\ \E u \in users : /\ resp.bearer.sub = Some(str(u.id))
                        /\ u.is_verified
                        /\ u.id \in registered

\* the welcome e-mails verify-email calls have tried to send to a user
WelcomeAttempts(u) ==
    CopiesIn([kind |-> "welcome", to |-> u.email, token |-> None,
              delivered |-> TRUE], outbox)
        + CopiesIn([kind |-> "welcome", to |-> u.email, token |-> None,
                    delivered |-> FALSE], outbox)

\* C28: the welcome e-mail is attempted at most once per user, also when two
\* verify-email calls for one unverified user, with the same token or with two
\* different valid tokens, interleave between reading is_verified and
\* committing it.
C28_WelcomeAtMostOnce ==
    \A u \in users : WelcomeAttempts(u) <= 1

C30_DeleteCategoryGuard ==
    /\ [](\A id \in 1..MaxCategories, outcome \in RemoveOutcomes :
            LET r == delete_category(DB, Cat, Some(Issued(1)), id, now, outcome)
                stored == {c \in categories : c.id = id}
                rows == {p \in products : p.category_id = Some(id)}
            IN /\ stored = {} =>
                     r.resp.status = HTTP_404_NOT_FOUND /\ r.cat = Cat
               /\ (stored # {} /\ rows # {}) =>
                     r.resp.status = HTTP_400_BAD_REQUEST /\ r.cat = Cat
               /\ (stored # {} /\ rows = {}) =>
                     /\ r.resp.status = HTTP_204_NO_CONTENT
                     /\ r.cat = [Cat EXCEPT !.categories = categories \ stored]
               /\ r.resp.status = HTTP_204_NO_CONTENT =>
                     \A p \in r.cat.products : p.category_id # Some(id))
    /\ [][\A q \in Procs :
             (/\ pc[q].op = "delete_category"
              /\ pc'[q] = Idle
              /\ \A p \in products : p.category_id # Some(pc[q].category_id)
              /\ \E c \in categories : c.id = pc[q].category_id) =>
                /\ resp'.status = HTTP_204_NO_CONTENT
                /\ categories' = {c \in categories : c.id # pc[q].category_id}
                /\ products' = products]_vars

\* a delete_category call has counted no product and stands before its
\* removal, and a product that names the category has been stored since
C30_Witness ==
    \E q \in Procs :
       /\ pc[q].op = "delete_category"
       /\ pc[q].step = "remove"
       /\ \E c \in categories : c.id = pc[q].category_id
       /\ \E p \in products : p.category_id = Some(pc[q].category_id)

====
